---- MODULE Spec2Model ----
(***************************************************************************)
(* The tool registry, the pattern filter and the permission resolver of    *)
(* the Knock agent toolkit (src/src/lib/utils.ts and the tool modules it   *)
(* imports) and the human-in-the-loop part of its AI SDK toolkit, as a     *)
(* state machine whose actions are the exported functions; the toolkits   *)
(* of src/src/ai-sdk and src/src/openai with the executors of their tools; *)
(* and the client cache of src/src/lib/knock-client.ts.                    *)
(*                                                                         *)
(* JavaScript values are tagged records (field t): "undefined", "null",    *)
(* "boolean", "string", "array", "object", "map", "function", "tool" (a    *)
(* KnockTool) and "aitool" (a tool of the AI SDK).                         *)
(* A string that the code takes apart (a pattern, a workflow key) is a     *)
(* sequence of atoms: TLA+ strings that are concatenated to give the       *)
(* JavaScript string.  The atom "." is the only atom that contains a dot   *)
(* and the atom "-" the only one that contains a dash.                     *)
(***************************************************************************)
EXTENDS Integers, Sequences, FiniteSets, TLC

VARIABLES
    registry,   \* the module-level registry: [tools, toolPermissions]
    pc,         \* "idle": no call in progress; "done": a call has returned
    call,       \* the call that was made: the function and its arguments
    result,     \* what the call did: a returned value or a thrown error
    hitl,       \* the version of lib/human-in-the-loop the build has
    wrappedToolsRequiringInput,
                \* the toolkit's Map of method to the tool that was wrapped
    deferringTools,
                \* the deferring execute functions requireHumanInput made
    inflight,   \* the data of the approval workflows that were triggered
    lastCompleted,
                \* the last resume that completed since the Map was written
    steps,      \* the calls the call in progress made, in order
    toolkit,    \* the toolkit createKnockToolkit returned, if any
    serviceTokensToApiClients,
                \* the module-level cache of lib/knock-client.ts
    exchanges,  \* the apiKeys.exchange requests made so far, in order
    exchanging, \* the publicApi calls that await their exchange
    returned    \* what the publicApi calls that resolved returned

\* The state of the human-in-the-loop part of a toolkit.
toolkitVars ==
    << hitl, wrappedToolsRequiringInput, deferringTools, inflight,
       lastCompleted >>

\* The state of lib/knock-client.ts and of the publicApi calls in progress.
clientVars == << serviceTokensToApiClients, exchanges, exchanging, returned >>

vars == << registry, pc, call, result, toolkitVars, steps, toolkit, clientVars >>

-----------------------------------------------------------------------------
(* Bounds of the model.                                                    *)

\* Longest pattern, in atoms, handed to filterTools.
MaxPatternLen == 3

\* Longest bucket of the registries that the tests substitute.
MaxBucketLen == 1

\* Most workflows the external listing returns.
MaxListing == 3

\* Most workflow keys a caller asks for.
MaxKeys == 2

\* Most buckets of one category in a grant.
MaxBuckets == 2

\* Most keys in a grant: its category keys and their bucket keys.
MaxGrantEntries == 3

\* Most times a tool set has been through requireHumanInput.
MaxWrapDepth == 2

\* Most apiKeys.exchange requests the publicApi calls make.
MaxExchanges == 3

\* Most approval workflows that are waiting for an answer.
MaxInFlight == 1

\* Most steps a workflow has before a step tool is called on it.
MaxSteps == 2

-----------------------------------------------------------------------------
(* JavaScript values.                                                      *)

Undefined == [t |-> "undefined"]

\* A member that every object inherits from Object.prototype (a function).
ProtoFn == [t |-> "function"]

Bool(b) == [t |-> "boolean", b |-> b]

\* A string value, kept as its atoms.
Str(atoms) == [t |-> "string", atoms |-> atoms]

Arr(items) == [t |-> "array", items |-> items]

\* An object literal: its own properties in insertion order.
Obj(props) == [t |-> "object", props |-> props]

Prop(k, v) == [key |-> k, val |-> v]

\* Names that resolve on every object through the prototype chain.  These
\* are the representatives used here of the members of Object.prototype.
ObjectPrototype == {"toString", "constructor"}

RECURSIVE Join(_)
\* The JavaScript string spelled by a sequence of atoms.
Join(atoms) ==
    IF atoms = << >> THEN "" ELSE Head(atoms) \o Join(Tail(atoms))

HasOwn(o, k) ==
    /\ o.t = "object"
    /\ \E i \in 1..Len(o.props) : o.props[i].key = k

\* o[k]: an own property, else an inherited member, else undefined.
Get(o, k) ==
    IF HasOwn(o, k)
    THEN LET i == CHOOSE j \in 1..Len(o.props) : o.props[j].key = k
         IN  o.props[i].val
    ELSE IF k \in ObjectPrototype THEN ProtoFn
    ELSE Undefined

\* Object.keys(o), Object.values(o): own enumerable properties only.
Keys(o) ==
    IF o.t = "object" THEN [i \in 1..Len(o.props) |-> o.props[i].key]
    ELSE << >>

Values(o) ==
    IF o.t = "object" THEN [i \in 1..Len(o.props) |-> o.props[i].val]
    ELSE << >>

\* JavaScript truthiness of a value.
Truthy(v) ==
    CASE v.t = "undefined" -> FALSE
      [] v.t = "null"      -> FALSE
      [] v.t = "boolean"   -> v.b
      [] v.t = "string"    -> Join(v.atoms) # ""
      [] OTHER             -> TRUE

RECURSIVE Flatten(_)
\* Array.prototype.flat over a list of lists.
Flatten(lists) ==
    IF lists = << >> THEN << >> ELSE Head(lists) \o Flatten(Tail(lists))

\* What a call did.
Return(v) == [status |-> "return", value |-> v, error |-> "", message |-> ""]

Throw(kind, msg) ==
    [status |-> "throw", value |-> << >>, error |-> kind, message |-> msg]

-----------------------------------------------------------------------------
(* Tool descriptors and the registry.                                      *)

\* The fields of a KnockTool that the registry code reads.  key is the
\* workflow a synthesized tool triggers, "" for a declared tool.
KnockTool(method, name) ==
    [t |-> "tool", method |-> method, name |-> name, key |-> ""]

\* src/unnamed/part_007, lines 227-233: the tools of category broadcasts in declaration order.
broadcasts ==
    Obj(<< Prop("listBroadcasts", KnockTool("list_broadcasts", "List broadcasts")),
       Prop("getBroadcast", KnockTool("get_broadcast", "Get broadcast")),
       Prop("upsertBroadcast", KnockTool("upsert_broadcast", "Upsert broadcast")),
       Prop("sendBroadcast", KnockTool("send_broadcast", "Send broadcast")),
       Prop("cancelBroadcast", KnockTool("cancel_broadcast", "Cancel broadcast")) >>)

\* src/unnamed/part_007, lines 235-238: the permission buckets of category broadcasts.
broadcastsPermissions ==
    Obj(<< Prop("read", Arr(<< "listBroadcasts", "getBroadcast" >>)),
       Prop("manage", Arr(<< "upsertBroadcast", "sendBroadcast", "cancelBroadcast" >>)) >>)

\* src/src/lib/tools/channels.ts, lines 21-23: the tools of category channels in declaration order.
channels ==
    Obj(<< Prop("listChannels", KnockTool("list_channels", "List channels")) >>)

\* src/src/lib/tools/channels.ts, lines 25-27: the permission buckets of category channels.
channelsPermissions ==
    Obj(<< Prop("read", Arr(<< "listChannels" >>)) >>)

\* src/unnamed/part_004, lines 76-80: the tools of category commits in declaration order.
commits ==
    Obj(<< Prop("listCommits", KnockTool("list_commits", "List commits")),
       Prop("commitAllChanges", KnockTool("commit_all_changes", "Commit all changes")),
       Prop("promoteAllCommits", KnockTool("promote_all_commits", "Promote all commits")) >>)

\* src/unnamed/part_004, lines 82-85: the permission buckets of category commits.
commitsPermissions ==
    Obj(<< Prop("read", Arr(<< "listCommits" >>)),
       Prop("manage", Arr(<< "commitAllChanges", "promoteAllCommits" >>)) >>)

\* src/src/lib/tools/email-layouts.ts, lines 126-128: the tools of category documentation in declaration order.
documentation ==
    Obj(<< Prop("searchDocumentation", KnockTool("search_documentation", "Search documentation")) >>)

\* src/src/lib/tools/email-layouts.ts, lines 130-132: the permission buckets of category documentation.
documentationPermissions ==
    Obj(<< Prop("read", Arr(<< "searchDocumentation" >>)) >>)

\* src/src/lib/tools/email-layouts.ts, lines 91-94: the tools of category emailLayouts in declaration order.
emailLayouts ==
    Obj(<< Prop("listEmailLayouts", KnockTool("list_email_layouts", "List email layouts")),
       Prop("createOrUpdateEmailLayout", KnockTool("create_or_update_email_layout", "Create or update email layout")) >>)

\* src/src/lib/tools/email-layouts.ts, lines 96-99: the permission buckets of category emailLayouts.
emailLayoutsPermissions ==
    Obj(<< Prop("read", Arr(<< "listEmailLayouts" >>)),
       Prop("manage", Arr(<< "createOrUpdateEmailLayout" >>)) >>)

\* src/src/lib/tools/environments.ts, lines 37-39: the tools of category environments in declaration order.
environments ==
    Obj(<< Prop("listEnvironments", KnockTool("list_environments", "List environments")) >>)

\* src/src/lib/tools/environments.ts, lines 41-43: the permission buckets of category environments.
environmentsPermissions ==
    Obj(<< Prop("read", Arr(<< "listEnvironments" >>)) >>)

\* src/src/lib/tools/guides.ts, lines 208-212: the tools of category guides in declaration order.
guides ==
    Obj(<< Prop("listGuides", KnockTool("list_guides", "List guides")),
       Prop("getGuide", KnockTool("get_guide", "Get guide")),
       Prop("createOrUpdateGuide", KnockTool("upsert_guide", "Upsert guide")) >>)

\* src/src/lib/tools/guides.ts, lines 214-217: the permission buckets of category guides.
guidesPermissions ==
    Obj(<< Prop("read", Arr(<< "listGuides", "getGuide" >>)),
       Prop("manage", Arr(<< "createOrUpdateGuide" >>)) >>)

\* src/src/lib/tools/messages.ts, lines 101-106: the tools of category messages in declaration order.
messages ==
    Obj(<< Prop("getMessage", KnockTool("get_message", "Get message")),
       Prop("getMessageContent", KnockTool("get_message_content", "Get message content")),
       Prop("getMessageDeliveryLogs", KnockTool("get_message_delivery_logs", "Get message delivery logs")),
       Prop("getMessageEvents", KnockTool("get_message_events", "Get message events")) >>)

\* src/src/lib/tools/messages.ts, lines 108-110: the permission buckets of category messages.
messagesPermissions ==
    Obj(<< Prop("read", Arr(<< "getMessage", "getMessageContent", "getMessageDeliveryLogs", "getMessageEvents" >>)) >>)

\* src/src/lib/tools/message-types.ts, lines 191-194: the tools of category messageTypes in declaration order.
messageTypes ==
    Obj(<< Prop("listMessageTypes", KnockTool("list_message_types", "List message types")),
       Prop("createOrUpdateMessageType", KnockTool("create_or_update_message_type", "Create or update message type")) >>)

\* src/src/lib/tools/message-types.ts, lines 196-199: the permission buckets of category messageTypes.
messageTypesPermissions ==
    Obj(<< Prop("read", Arr(<< "listMessageTypes" >>)),
       Prop("manage", Arr(<< "createOrUpdateMessageType" >>)) >>)

\* src/src/lib/tools/objects.ts, lines 148-155: the tools of category objects in declaration order.
objects ==
    Obj(<< Prop("listObjects", KnockTool("list_objects", "List objects")),
       Prop("getObject", KnockTool("get_object", "Get object")),
       Prop("createOrUpdateObject", KnockTool("create_or_update_object", "Create or update object")),
       Prop("deleteObject", KnockTool("delete_object", "Delete object")),
       Prop("subscribeUsersToObject", KnockTool("subscribe_users_to_object", "Subscribe users to object")),
       Prop("unsubscribeUsersFromObject", KnockTool("unsubscribe_users_from_object", "Unsubscribe users from object")) >>)

\* src/src/lib/tools/objects.ts, lines 157-165: the permission buckets of category objects.
objectsPermissions ==
    Obj(<< Prop("read", Arr(<< "listObjects", "getObject" >>)),
       Prop("manage", Arr(<< "createOrUpdateObject", "deleteObject", "subscribeUsersToObject", "unsubscribeUsersFromObject" >>)) >>)

\* src/src/lib/tools/partials.ts, lines 127-131: the tools of category partials in declaration order.
partials ==
    Obj(<< Prop("getPartial", KnockTool("get_partial", "Get partial")),
       Prop("listPartials", KnockTool("list_partials", "List partials")),
       Prop("createOrUpdatePartial", KnockTool("upsert_partial", "Upsert partial")) >>)

\* src/src/lib/tools/partials.ts, lines 133-136: the permission buckets of category partials.
partialsPermissions ==
    Obj(<< Prop("read", Arr(<< "getPartial", "listPartials" >>)),
       Prop("manage", Arr(<< "createOrUpdatePartial" >>)) >>)

\* src/unnamed/part_006, lines 627-631: the tools of category tenants in declaration order.
tenants ==
    Obj(<< Prop("getTenant", KnockTool("get_tenant", "Get tenant")),
       Prop("setTenant", KnockTool("set_tenant", "Set tenant")),
       Prop("deleteTenant", KnockTool("delete_tenant", "Delete tenant")) >>)

\* src/unnamed/part_006, lines 633-636: the permission buckets of category tenants.
tenantsPermissions ==
    Obj(<< Prop("read", Arr(<< "getTenant" >>)),
       Prop("manage", Arr(<< "setTenant", "deleteTenant" >>)) >>)

\* src/src/lib/tools/users.ts, lines 277-283: the tools of category users in declaration order.
users ==
    Obj(<< Prop("getUser", KnockTool("get_user", "Get user")),
       Prop("createOrUpdateUser", KnockTool("upsert_user", "Create or update user")),
       Prop("getUserPreferences", KnockTool("get_user_preferences", "Get user preferences")),
       Prop("setUserPreferences", KnockTool("set_user_preferences", "Set user preferences")),
       Prop("getUserMessages", KnockTool("get_user_messages", "Get user messages")) >>)

\* src/src/lib/tools/users.ts, lines 285-288: the permission buckets of category users.
usersPermissions ==
    Obj(<< Prop("read", Arr(<< "getUser", "getUserMessages", "getUserPreferences" >>)),
       Prop("manage", Arr(<< "createOrUpdateUser", "setUserPreferences" >>)) >>)

\* src/src/lib/tools/workflows.ts, lines 372-378: the tools of category workflows in declaration order.
workflowsRun ==
    Obj(<< Prop("listWorkflows", KnockTool("list_workflows", "List workflows")),
       Prop("getWorkflow", KnockTool("get_workflow", "Get workflow")),
       Prop("triggerWorkflow", KnockTool("trigger_workflow", "Trigger workflow")),
       Prop("createEmailWorkflow", KnockTool("create_rich_email_workflow", "Create rich email workflow")),
       Prop("createOneOffWorkflowSchedule", KnockTool("create_one_off_workflow_schedule", "Create one-off workflow schedule")) >>)

\* src/src/lib/tools/workflows.ts, lines 380-384: the permission buckets of category workflows.
workflowsRunPermissions ==
    Obj(<< Prop("read", Arr(<< "listWorkflows", "getWorkflow" >>)),
       Prop("manage", Arr(<< "createEmailWorkflow", "createOneOffWorkflowSchedule" >>)),
       Prop("run", Arr(<< "triggerWorkflow" >>)) >>)

\* src/unnamed/part_009, lines 202-207: the tools of category workflows in declaration order.
workflows ==
    Obj(<< Prop("listWorkflows", KnockTool("list_workflows", "List workflows")),
       Prop("triggerWorkflow", KnockTool("trigger_workflow", "Trigger workflow")),
       Prop("createEmailWorkflow", KnockTool("create_email_workflow", "Create email workflow")),
       Prop("createOneOffWorkflowSchedule", KnockTool("create_one_off_workflow_schedule", "Create one-off workflow schedule")) >>)

\* src/unnamed/part_009, lines 209-213: the permission buckets of category workflows.
workflowsPermissions ==
    Obj(<< Prop("read", Arr(<< "listWorkflows" >>)),
       Prop("manage", Arr(<< "createEmailWorkflow", "createOneOffWorkflowSchedule" >>)),
       Prop("trigger", Arr(<< "triggerWorkflow" >>)) >>)
\* src/src/lib/tools/index.ts, lines 31-46: the categories in registry order.
tools ==
    Obj(<< Prop("broadcasts", broadcasts),
           Prop("channels", channels),
           Prop("commits", commits),
           Prop("documentation", documentation),
           Prop("emailLayouts", emailLayouts),
           Prop("environments", environments),
           Prop("guides", guides),
           Prop("messages", messages),
           Prop("messageTypes", messageTypes),
           Prop("objects", objects),
           Prop("partials", partials),
           Prop("tenants", tenants),
           Prop("users", users),
           Prop("workflows", workflows) >>)

\* src/src/lib/tools/index.ts, lines 65-80.
toolPermissions ==
    Obj(<< Prop("broadcasts", broadcastsPermissions),
           Prop("channels", channelsPermissions),
           Prop("commits", commitsPermissions),
           Prop("documentation", documentationPermissions),
           Prop("emailLayouts", emailLayoutsPermissions),
           Prop("environments", environmentsPermissions),
           Prop("guides", guidesPermissions),
           Prop("messages", messagesPermissions),
           Prop("messageTypes", messageTypesPermissions),
           Prop("objects", objectsPermissions),
           Prop("partials", partialsPermissions),
           Prop("tenants", tenantsPermissions),
           Prop("users", usersPermissions),
           Prop("workflows", workflowsPermissions) >>)

\* obj with the value of property k replaced (k stays where it is).
SetProp(obj, k, v) ==
    Obj([i \in 1..Len(obj.props) |->
            IF obj.props[i].key = k THEN Prop(k, v) ELSE obj.props[i]])

\* The registry as src/src/lib/tools/index.ts builds it when the workflows
\* module is src/src/lib/tools/workflows.ts (bucket "run").
toolsRun == SetProp(tools, "workflows", workflowsRun)

toolPermissionsRun ==
    SetProp(toolPermissions, "workflows", workflowsRunPermissions)

\* src/src/lib/__tests__/utils.test.ts, lines 68-82: the registry the tests
\* hand to filterTools.
mockTools ==
    Obj(<< Prop("users", Obj(<<
               Prop("getUser", KnockTool("getUser", "Get user")),
               Prop("createOrUpdateUser",
                    KnockTool("createOrUpdateUser", "Create or update user")) >>)),
           Prop("messages", Obj(<<
               Prop("getMessageContent",
                    KnockTool("getMessageContent", "Get message content")) >>)) >>)

\* src/src/lib/__tests__/utils.test.ts, lines 15-54: the registry module
\* the tests substitute for src/src/lib/tools/index.ts.
mockedTools ==
    Obj(<< Prop("users", Get(mockTools, "users")),
           Prop("messages", Get(mockTools, "messages")),
           Prop("workflows", Obj(<<
               Prop("listWorkflows", KnockTool("listWorkflows", "List workflows")),
               Prop("triggerWorkflow",
                    KnockTool("trigger_workflow", "Trigger workflow")) >>)) >>)

mockedToolPermissions ==
    Obj(<< Prop("users", Obj(<<
               Prop("read", Arr(<< "getUser" >>)),
               Prop("manage", Arr(<< "createOrUpdateUser" >>)) >>)),
           Prop("messages", Obj(<<
               Prop("read", Arr(<< "getMessageContent" >>)) >>)),
           Prop("workflows", Obj(<<
               Prop("read", Arr(<< "listWorkflows" >>)),
               Prop("run", Arr(<< "triggerWorkflow" >>)) >>)) >>)

-----------------------------------------------------------------------------
(* filterTools: the pattern filter of the local server.                    *)

\* A flatMap that forgets all categories but the first.
AllToolsFirstCategoryOnly(tls) ==
    IF Values(tls) = << >> THEN << >> ELSE Values(Values(tls)[1])

\* Array.prototype.flatMap(Object.values) over the categories (lines 28, 35).
AllTools(tls) ==
    Flatten([i \in 1..Len(Values(tls)) |-> Values(Values(tls)[i])])

RECURSIVE Split(_)
\* String.prototype.split("."): the segments between the dots.
Split(atoms) ==
    IF \A i \in 1..Len(atoms) : atoms[i] # "."
    THEN << Join(atoms) >>
    ELSE LET i == CHOOSE j \in 1..Len(atoms) :
                      /\ atoms[j] = "."
                      /\ \A k \in 1..(j - 1) : atoms[k] # "."
         IN  << Join(SubSeq(atoms, 1, i - 1)) >>
                 \o Split(SubSeq(atoms, i + 1, Len(atoms)))

\* A category listing that loses its last tool.
CategoryToolsDropLast(inCategory) ==
    IF Values(inCategory) = << >> THEN << >>
    ELSE SubSeq(Values(inCategory), 1, Len(Values(inCategory)) - 1)

\* Object.values(tools[category]) (line 44).
CategoryTools(inCategory) == Values(inCategory)

\* A lookup that ignores the tool segment and takes the category's first tool.
SingleToolFirstOfCategory(inCategory, tool) ==
    IF Values(inCategory) = << >> THEN << Undefined >>
    ELSE << Values(inCategory)[1] >>

\* [tools[category][tool]] (line 52).
SingleTool(inCategory, tool) == << Get(inCategory, tool) >>

\* filterTools(tools, pattern), src/src/lib/utils.ts lines 18-53.  tool is
\* undefined (hasTool is FALSE) when the pattern has no dot; as a property
\* name undefined reads the property "undefined".
filterTools(tls, pattern) ==
    IF ~Truthy(pattern)
    THEN Throw("Error", "No pattern provided")
    ELSE
    LET parts    == Split(pattern.atoms)
        category == parts[1]
        hasTool  == Len(parts) >= 2
        tool     == IF hasTool THEN parts[2] ELSE "undefined"
        inCategory == Get(tls, category)
    IN  IF Join(pattern.atoms) = "*"
        THEN Return(AllTools(tls))
        ELSE IF category = "*" /\ hasTool /\ tool = "*"
        THEN Return(AllTools(tls))
        ELSE IF category # "" /\ ~Truthy(inCategory)
        THEN Throw("Error", "Tool category " \o category \o " not found")
        ELSE IF category # "" /\ hasTool /\ tool = "*"
        THEN Return(CategoryTools(inCategory))
        ELSE IF /\ category # ""
                /\ hasTool /\ tool # ""
                /\ ~Truthy(Get(inCategory, tool))
        THEN Throw("Error", "Tool " \o Join(pattern.atoms) \o " not found")
        ELSE IF inCategory.t = "undefined"
        THEN Throw("TypeError", "Cannot read properties of undefined")
        ELSE Return(SingleTool(inCategory, tool))

-----------------------------------------------------------------------------
(* Workflows as tools: src/unnamed/part_009 lines 215-315.                 *)

\* A workflow of the external listing: its key, as atoms, and its name.
Workflow(key, name) == [key |-> key, name |-> name]

RECURSIVE ReplaceFirst(_, _, _)
\* String.prototype.replace(from, to) with a string pattern: only the first
\* occurrence is replaced.
ReplaceFirst(atoms, from, to) ==
    IF atoms = << >> THEN << >>
    ELSE IF Head(atoms) = from THEN << to >> \o Tail(atoms)
    ELSE << Head(atoms) >> \o ReplaceFirst(Tail(atoms), from, to)

\* workflowAsTool(workflow), lines 232-280: method and name are derived
\* from the workflow and the executor closes over workflow.key.
workflowAsTool(workflow) ==
    [t      |-> "tool",
     method |-> "trigger_" \o Join(ReplaceFirst(workflow.key, "-", "_"))
                   \o "_workflow",
     name   |-> "Trigger " \o workflow.name \o " workflow",
     key    |-> Join(workflow.key)]

\* Array.prototype.includes on a list of strings.
Includes(list, s) == \E i \in 1..Len(list) : list[i] = s

\* A filter that keeps the workflows that are NOT asked for.
KeepWorkflowInverted(workflowKeysToInclude, workflow) ==
    /\ Truthy(workflowKeysToInclude)
    /\ ~Includes(workflowKeysToInclude.items, Join(workflow.key))

\* The negation of the skip condition of lines 301-306.
KeepWorkflow(workflowKeysToInclude, workflow) ==
    ~(/\ Truthy(workflowKeysToInclude)
      /\ ~Includes(workflowKeysToInclude.items, Join(workflow.key)))

\* createWorkflowTools(knockClient, config, workflowKeysToInclude), lines
\* 290-313.  listing is what knockClient.workflows.list yields: the
\* workflows of the environment, or an error of the API.
createWorkflowTools(listing, workflowKeysToInclude) ==
    IF listing.t = "error"
    THEN Throw("ApiError", "workflows.list failed")
    ELSE LET Keep(w) == KeepWorkflow(workflowKeysToInclude, w)
             kept == SelectSeq(listing.items, Keep)
         IN  Return([i \in 1..Len(kept) |-> workflowAsTool(kept[i])])

-----------------------------------------------------------------------------
(* The permission resolver: src/src/lib/utils.ts lines 62-141.             *)

\* A check that takes every value but undefined for a grant.
GrantedUnlessUndefined(hasPermission) == hasPermission.t # "undefined"

\* The condition of lines 77-80 on one bucket value of the grant.
Granted(hasPermission) ==
    \/ hasPermission.t = "array" /\ Len(hasPermission.items) > 0
    \/ hasPermission.t = "boolean" /\ hasPermission.b

\* A bucket's tools listed in the registry's declaration order instead of
\* the bucket's own order.
BucketToolsInDeclarationOrder(toolsInCategory, bucket) ==
    LET InBucket(tool) ==
            \E i \in 1..Len(bucket.items) :
                Get(toolsInCategory, bucket.items[i]) = tool
    IN  SelectSeq(Values(toolsInCategory), InBucket)

\* toolPermissionsInCategory[permissionType].map(name => toolsInCategory[name])
\* (lines 82-84).
BucketTools(toolsInCategory, bucket) ==
    [i \in 1..Len(bucket.items) |-> Get(toolsInCategory, bucket.items[i])]

RECURSIVE ReducePermissions(_, _, _, _)
\* The reduce of lines 75-90 over the entries of the grant that are left,
\* acc being the tools collected so far.
ReducePermissions(toolsInCategory, toolPermissionsInCategory, entries, acc) ==
    IF entries = << >> THEN Return(acc)
    ELSE
    LET permissionType == Head(entries).key
        hasPermission  == Head(entries).val
    IN  IF ~Granted(hasPermission)
        THEN ReducePermissions(toolsInCategory, toolPermissionsInCategory,
                               Tail(entries), acc)
        ELSE IF toolPermissionsInCategory.t = "undefined"
        THEN Throw("TypeError", "Cannot read properties of undefined")
        ELSE
        LET bucket == Get(toolPermissionsInCategory, permissionType)
        IN  IF bucket.t # "array"
            THEN Throw("TypeError", "map is not a function")
            ELSE IF toolsInCategory.t = "undefined"
            THEN Throw("TypeError", "Cannot read properties of undefined")
            ELSE ReducePermissions(toolsInCategory, toolPermissionsInCategory,
                     Tail(entries),
                     acc \o BucketTools(toolsInCategory, bucket))

\* getToolsWithPermissions(category, categoryPermissions), lines 62-91, on
\* the registry reg the module imports.
getToolsWithPermissions(reg, category, categoryPermissions) ==
    IF categoryPermissions.t = "undefined"
    THEN Throw("TypeError", "Cannot convert undefined or null to object")
    ELSE ReducePermissions(Get(reg.tools, category),
                           Get(reg.toolPermissions, category),
                           categoryPermissions.props, << >>)

RECURSIVE ReduceCategories(_, _, _, _)
\* The reduce of lines 106-120 over the category keys of the grant that are
\* left, acc being the entries of toolsByCategory built so far.
ReduceCategories(reg, permissions, categories, acc) ==
    IF categories = << >> THEN Return(Obj(acc))
    ELSE
    LET categoryKey         == Head(categories)
        categoryPermissions == Get(permissions, categoryKey)
    IN  IF Truthy(Get(reg.tools, categoryKey)) /\ Truthy(categoryPermissions)
        THEN LET found == getToolsWithPermissions(reg, categoryKey,
                                                  categoryPermissions)
             IN  IF found.status = "throw" THEN found
                 ELSE ReduceCategories(reg, permissions, Tail(categories),
                          Append(acc, Prop(categoryKey, Arr(found.value))))
        ELSE ReduceCategories(reg, permissions, Tail(categories), acc)

\* The condition of lines 124-128: the grant lists workflow keys.
HasTriggerList(permissions) ==
    /\ Truthy(Get(permissions, "workflows"))
    /\ Truthy(Get(Get(permissions, "workflows"), "trigger"))
    /\ Get(Get(permissions, "workflows"), "trigger").t = "array"

\* An append that puts the synthesized tools before the static ones.
AppendWorkflowToolsInFront(toolsByCategory, workflowTools) ==
    IF Get(toolsByCategory, "workflows").t # "array"
    THEN Throw("TypeError", "toolsByCategory.workflows is not iterable")
    ELSE Return(SetProp(toolsByCategory, "workflows",
             Arr(workflowTools \o Get(toolsByCategory, "workflows").items)))

\* Lines 134-137: the synthesized tools go after the category's tools.
AppendWorkflowTools(toolsByCategory, workflowTools) ==
    IF Get(toolsByCategory, "workflows").t # "array"
    THEN Throw("TypeError", "toolsByCategory.workflows is not iterable")
    ELSE Return(SetProp(toolsByCategory, "workflows",
             Arr(Get(toolsByCategory, "workflows").items \o workflowTools)))

\* getToolsByPermissionsInCategories(knockClient, config), lines 102-141.
\* listing is what the workflow listing yields if the function asks for it.
getToolsByPermissionsInCategories(reg, permissions, listing) ==
    LET toolsByCategory ==
            ReduceCategories(reg, permissions, Keys(permissions), << >>)
    IN  IF toolsByCategory.status = "throw" THEN toolsByCategory
        ELSE IF ~HasTriggerList(permissions) THEN toolsByCategory
        ELSE
        LET workflowTools ==
                createWorkflowTools(listing,
                    Get(Get(permissions, "workflows"), "trigger"))
        IN  IF workflowTools.status = "throw" THEN workflowTools
            ELSE AppendWorkflowTools(toolsByCategory.value,
                                     workflowTools.value)


RECURSIVE ToolMapReduce(_, _)
\* The reduce of lines 150-156 over the tools that are left: acc[tool.method]
\* = tool keeps a key where it first appeared and overwrites its value.
ToolMapReduce(toolList, acc) ==
    IF toolList = << >> THEN acc
    ELSE LET tool == Head(toolList)
         IN  ToolMapReduce(Tail(toolList),
                 IF HasOwn(acc, tool.method)
                 THEN SetProp(acc, tool.method, tool)
                 ELSE Obj(Append(acc.props, Prop(tool.method, tool))))

\* getToolMap(tools), lines 149-157.
getToolMap(toolList) == ToolMapReduce(toolList, Obj(<< >>))
-----------------------------------------------------------------------------
(* Human in the loop: src/unnamed/part_012 and part_015,                    *)
(* src/src/lib/human-in-the-loop/index.ts.                                  *)

Null == [t |-> "null"]

\* The execute function a caller gave a tool; id names the function.
Original(id) == [t |-> "function", kind |-> "original", id |-> id]

\* The execute function of part_015 lines 199-221, closed over method and
\* inputConfig.
Deferring(method, inputConfig) ==
    [t |-> "function", kind |-> "deferring",
     method |-> method, inputConfig |-> inputConfig]

\* A tool of the AI SDK: the fields requireHumanInput reads or replaces.
\* execute is a function or undefined.
Tool(description, execute) ==
    [t |-> "aitool", description |-> description, execute |-> execute]

\* What an original execute function returns for an input.
ResultOf(id, input) == [t |-> "result", of |-> id, input |-> input]

\* wrapToolDescription, part_012 lines 15-17: the note is appended.
wrapToolDescription(description) == description \o << "deferred-note" >>

\* A DeferredToolCall {method, args, extra}.
DeferredToolCall(method, args, extra) ==
    Obj(<< Prop("method", method), Prop("args", args), Prop("extra", extra) >>)

\* The status objects of part_015 lines 216-220 and 263-268.
PendingInput(toolCallId) ==
    Obj(<< Prop("type", Str(<< "tool-status" >>)),
           Prop("status", Str(<< "pending-input" >>)),
           Prop("toolCallId", toolCallId) >>)

Completed(toolCallId, res) ==
    Obj(<< Prop("type", Str(<< "tool-status" >>)),
           Prop("status", Str(<< "completed" >>)),
           Prop("toolCallId", toolCallId),
           Prop("result", res) >>)

\* What a call did and which steps it took: the calls it made to the
\* caller's functions and to the API, in order.
Outcome(res, taken) == [res |-> res, steps |-> taken]

\* The data of the workflow trigger: part_012 lines 44-48 tag it, the
\* version of src/src/lib/human-in-the-loop/index.ts (lines 33-36) does not.
WorkflowData(version, toolCall, inputConfig) ==
    IF version = "part_012"
    THEN Obj(<< Prop("type", Str(<< "deferred_tool_call" >>)),
                Prop("tool_call", toolCall),
                Prop("metadata", inputConfig.metadata) >>)
    ELSE Obj(<< Prop("tool_call", toolCall),
                Prop("metadata", inputConfig.metadata) >>)

\* The request knock.workflows.trigger makes.
TriggerStep(version, toolCall, inputConfig) ==
    [step |-> "trigger",
     workflow |-> inputConfig.workflow,
     data |-> WorkflowData(version, toolCall, inputConfig),
     recipients |-> inputConfig.recipients]

\* What the API answers to a trigger.
WorkflowRun == Obj(<< Prop("workflow_run_id", Str(<< "run" >>)) >>)

\* A trigger that calls onAfterCallKnock before the API has answered.
triggerHumanInTheLoopWorkflowAfterFirst(version, toolCall, inputConfig, fail) ==
    LET hooks  == version = "part_012"
        before == IF hooks /\ inputConfig.onBeforeCallKnock
                  THEN << [step |-> "onBeforeCallKnock", toolCall |-> toolCall] >>
                  ELSE << >>
        trig   == << TriggerStep(version, toolCall, inputConfig) >>
        after  == IF hooks /\ inputConfig.onAfterCallKnock
                  THEN << [step |-> "onAfterCallKnock", toolCall |-> toolCall,
                           result |-> WorkflowRun] >>
                  ELSE << >>
    IN  IF fail = "publicApi"
        THEN Outcome(Throw("ApiError", "publicApi failed"), << >>)
        ELSE IF fail = "trigger"
        THEN Outcome(Throw("ApiError", "workflows.trigger failed"),
                     before \o after \o trig)
        ELSE Outcome(Return(WorkflowRun), before \o after \o trig)

\* triggerHumanInTheLoopWorkflow, part_012 lines 26-59 and
\* src/src/lib/human-in-the-loop/index.ts lines 19-43.  fail names the
\* step that fails in this call, if any.
triggerHumanInTheLoopWorkflow(version, toolCall, inputConfig, fail) ==
    LET hooks  == version = "part_012"
        before == IF hooks /\ inputConfig.onBeforeCallKnock
                  THEN << [step |-> "onBeforeCallKnock", toolCall |-> toolCall] >>
                  ELSE << >>
        trig   == << TriggerStep(version, toolCall, inputConfig) >>
        after  == IF hooks /\ inputConfig.onAfterCallKnock
                  THEN << [step |-> "onAfterCallKnock", toolCall |-> toolCall,
                           result |-> WorkflowRun] >>
                  ELSE << >>
    IN  IF fail = "publicApi"
        THEN Outcome(Throw("ApiError", "publicApi failed"), << >>)
        ELSE IF fail = "onBeforeCallKnock" /\ before # << >>
        THEN Outcome(Throw("Error", "onBeforeCallKnock failed"), before)
        ELSE IF fail = "trigger"
        THEN Outcome(Throw("ApiError", "workflows.trigger failed"),
                     before \o trig)
        ELSE IF fail = "onAfterCallKnock" /\ after # << >>
        THEN Outcome(Throw("Error", "onAfterCallKnock failed"),
                     before \o trig \o after)
        ELSE Outcome(Return(WorkflowRun), before \o trig \o after)

\* A toolExecution that leaves the id of the invocation out.
ToolExecutionWithoutCallId(method, input, options) ==
    DeferredToolCall(Str(<< method >>), input, Obj(<< >>))

\* The toolExecution of part_015 lines 200-206.
ToolExecution(method, input, options) ==
    DeferredToolCall(Str(<< method >>), input,
        Obj(<< Prop("toolCallId", Get(options, "toolCallId")) >>))

\* tool.execute(input, options) for an execute function of either kind.
\* An original function runs the caller's code; a deferring one runs
\* part_015 lines 199-221.
Execute(version, execute, input, options, fail) ==
    IF execute.kind = "original"
    THEN LET ran == << [step |-> "execute", executor |-> execute.id,
                        args |-> input, options |-> options] >>
         IN  IF fail = "execute"
             THEN Outcome(Throw("Error", "execute failed"), ran)
             ELSE Outcome(Return(ResultOf(execute.id, input)), ran)
    ELSE IF options.t # "object"
    THEN Outcome(Throw("TypeError", "Cannot read properties of undefined"),
                 << >>)
    ELSE LET triggered ==
                 triggerHumanInTheLoopWorkflow(version,
                     ToolExecution(execute.method, input, options),
                     execute.inputConfig, fail)
         IN  IF triggered.res.status = "throw" THEN triggered
             ELSE Outcome(Return(PendingInput(Get(options, "toolCallId"))),
                          triggered.steps)

\* A Map: its entries in insertion order.
Map(entries) == [t |-> "map", entries |-> entries]

MapHas(m, k) == \E i \in 1..Len(m.entries) : m.entries[i].key = k

\* Map.prototype.get: the value of the key, else undefined.
MapGet(m, k) ==
    IF MapHas(m, k)
    THEN m.entries[CHOOSE i \in 1..Len(m.entries) : m.entries[i].key = k].val
    ELSE Undefined

\* Map.prototype.set: a key that is present keeps its place.
MapSet(m, k, v) ==
    IF MapHas(m, k)
    THEN Map([i \in 1..Len(m.entries) |->
                 IF m.entries[i].key = k THEN Prop(k, v) ELSE m.entries[i]])
    ELSE Map(Append(m.entries, Prop(k, v)))

\* The wrapped tool of part_015 lines 196-222.
WrappedTool(method, toolToWrap, inputConfig) ==
    Tool(wrapToolDescription(toolToWrap.description),
         Deferring(method, inputConfig))

RECURSIVE WrapEntries(_, _, _, _)
\* The loop of part_015 lines 192-225 over the entries of toolsToWrap that
\* are left: table is wrappedToolsRequiringInput, wrapped is wrappedTools.
WrapEntries(entries, inputConfig, table, wrapped) ==
    IF entries = << >> THEN [table |-> table, wrapped |-> Obj(wrapped)]
    ELSE LET method     == Head(entries).key
             toolToWrap == Head(entries).val
         IN  WrapEntries(Tail(entries), inputConfig,
                 MapSet(table, method, toolToWrap),
                 Append(wrapped,
                     Prop(method, WrappedTool(method, toolToWrap, inputConfig))))

\* requireHumanInput(toolsToWrap, inputConfig), part_015 lines 186-228.
requireHumanInput(table, toolsToWrap, inputConfig) ==
    WrapEntries(toolsToWrap.props, inputConfig, table, << >>)

\* The key a method value has in a Map of strings.
MethodKey(method) == IF method.t = "string" THEN Join(method.atoms) ELSE ""

\* A lookup that falls back on the tools the toolkit permits.
ToolToResumeOrPermitted(table, permitted, method) ==
    IF MapHas(table, MethodKey(method)) THEN MapGet(table, MethodKey(method))
    ELSE IF method.t = "string" /\ HasOwn(permitted, MethodKey(method))
    THEN Tool(<< >>, Original(MethodKey(method)))
    ELSE Undefined

\* wrappedToolsRequiringInput.get(toolInteraction.method), part_015 line
\* 244.  permitted is toolsByMethod (line 134), which is not consulted.
ToolToResume(table, permitted, method) ==
    IF method.t = "string" THEN MapGet(table, MethodKey(method)) ELSE Undefined

\* A resume that takes the entry of the method out of the Map.
TableAfterResumeEvicting(table, toolInteraction) ==
    Map(SelectSeq(table.entries,
            LAMBDA e : e.key # MethodKey(Get(toolInteraction, "method"))))

\* The Map after resumeToolExecution: lines 243-269 call get on it and
\* nothing else.
TableAfterResume(table, toolInteraction) == table

\* resumeToolExecution(toolInteraction), part_015 lines 243-269.
resumeToolExecution(version, table, permitted, toolInteraction, fail) ==
    LET method == Get(toolInteraction, "method")
        tool   == ToolToResume(table, permitted, method)
    IN  IF tool.t = "undefined"
        THEN Outcome(Throw("Error", "Tool \"" \o MethodKey(method)
                 \o "\" not found. Did you forget to wrap the tool with requireHumanInput?"),
                 << >>)
        ELSE IF ~Truthy(tool.execute)
        THEN Outcome(Throw("Error", "Tool \"" \o MethodKey(method)
                 \o "\" does not have an execute method. Nothing to resume."),
                 << >>)
        ELSE
        LET options == Get(toolInteraction, "extra")
            ran     == Execute(version, tool.execute,
                               Get(toolInteraction, "args"), options, fail)
        IN  IF ran.res.status = "throw" THEN ran
            ELSE IF options.t # "object"
            THEN Outcome(Throw("TypeError",
                     "Cannot read properties of undefined"), ran.steps)
            ELSE Outcome(Return(Completed(Get(options, "toolCallId"),
                                          ran.res.value)), ran.steps)

\* v === s for a string literal s.
StrEq(v, s) == v.t = "string" /\ Join(v.atoms) = s

\* v[k] for a value that need not be an object.
Field(v, k) == IF v.t = "object" THEN Get(v, k) ELSE Undefined

\* A test that does not look at the tag of the data.
IsDeferredToolCallUntagged(data) == Truthy(Field(data, "tool_call"))

\* The negation of the condition of part_012 line 80: the data is tagged
\* and carries a tool call.
IsDeferredToolCall(data) ==
    /\ StrEq(Field(data, "type"), "deferred_tool_call")
    /\ Truthy(Field(data, "tool_call"))

\* An outbound webhook event and the message it carries.
Message(id, channelId, workflow, data) ==
    Obj(<< Prop("id", id), Prop("channel_id", channelId),
           Prop("source", Obj(<< Prop("key", workflow) >>)),
           Prop("data", data) >>)

WebhookEvent(type, createdAt, message, eventData) ==
    Obj(<< Prop("type", type), Prop("created_at", createdAt),
           Prop("data", message), Prop("event_data", eventData) >>)

\* handleMessageInteraction(event), part_012 lines 69-102 and
\* src/src/lib/human-in-the-loop/index.ts lines 53-85 (which has no id in
\* toolCall).
handleMessageInteraction(version, event) ==
    LET message == Get(event, "data")
        data    == Field(message, "data")
    IN  IF ~StrEq(Get(event, "type"), "message.interacted")
        THEN Return(Null)
        ELSE IF data.t \in {"undefined", "null"}
        THEN Throw("TypeError", "Cannot read properties of undefined")
        ELSE IF ~IsDeferredToolCall(data)
        THEN Return(Null)
        ELSE
        LET tool_call == Field(data, "tool_call")
            id == IF version = "part_012"
                  THEN << Prop("id", Field(tool_call, "id")) >> ELSE << >>
        IN  Return(Obj(<<
                Prop("workflow", Field(Field(message, "source"), "key")),
                Prop("interaction", Get(event, "event_data")),
                Prop("toolCall", Obj(id \o <<
                    Prop("method", Field(tool_call, "method")),
                    Prop("args", Field(tool_call, "args")),
                    Prop("extra", Field(tool_call, "extra")) >>)),
                Prop("metadata", Field(data, "metadata")),
                Prop("context", Obj(<<
                    Prop("messageId", Field(message, "id")),
                    Prop("channelId", Field(message, "channel_id")),
                    Prop("timestamp", Get(event, "created_at")) >>)) >>))
-----------------------------------------------------------------------------
(* The inputs of the calls.                                                *)

\* All sequences over S of length at most n.
SeqsUpTo(S, n) == UNION {[1..k -> S] : k \in 0..n}

\* Atoms of the patterns that are enumerated exhaustively: the separator,
\* the wildcard, a category, a tool key, a tool method, an inherited member
\* and a name the registries do not have.
PatternAtoms == {".", "*", "users", "getUser", "get_user", "toString", "zz"}

\* The tool keys of every category of a registry.
ToolKeys(tls) ==
    UNION {{Keys(Values(tls)[i])[j] : j \in 1..Len(Keys(Values(tls)[i]))} :
              i \in 1..Len(Values(tls))}

CategoryKeys(tls) == {Keys(tls)[i] : i \in 1..Len(Keys(tls))}

\* The patterns tried on a registry: every short sequence of PatternAtoms,
\* and for every category and every tool key of the registry the patterns
\* "category", "category.", "category.*" and "category.key".
Patterns(tls) ==
    {Undefined}
      \cup {Str(a) : a \in SeqsUpTo(PatternAtoms, MaxPatternLen)}
      \cup {Str(<< c >>) : c \in CategoryKeys(tls)}
      \cup {Str(<< c, "." >>) : c \in CategoryKeys(tls)}
      \cup {Str(<< c, ".", "*" >>) : c \in CategoryKeys(tls)}
      \cup {Str(<< c, ".", k >>) : c \in CategoryKeys(tls), k \in ToolKeys(tls)}

\* The sequences over S of length at most n without a repeated element.
DistinctSeqs(S, n) ==
    {s \in SeqsUpTo(S, n) : \A i, j \in 1..Len(s) : i # j => s[i] # s[j]}

\* The registries of the tests with the manage bucket of users listing any
\* tools of the category: two buckets of a category may share a tool.
mockedRegistries ==
    { [tools |-> mockedTools,
       toolPermissions |->
           SetProp(mockedToolPermissions, "users",
               SetProp(Get(mockedToolPermissions, "users"), "manage",
                       Arr(bucket)))] :
        bucket \in DistinctSeqs({"getUser", "createOrUpdateUser"}, MaxBucketLen) }

\* The registries the module-level imports can be bound to.
Registries ==
    { [tools |-> tools, toolPermissions |-> toolPermissions],
      [tools |-> toolsRun, toolPermissions |-> toolPermissionsRun] }
      \cup mockedRegistries

\* The workflows the environment can hold.  Workflow keys are made of
\* letters, digits, "-" and "_"; two of these differ in one such character.
ListedWorkflows ==
    { Workflow(<< "k1" >>, "K1"),
      Workflow(<< "order", "-", "shipped" >>, "Order shipped"),
      Workflow(<< "order", "_", "shipped" >>, "Order shipped (legacy)") }

\* What knockClient.workflows.list can yield: an error, or the workflows of
\* the environment in the order of the API.
Listings ==
    {[t |-> "error"]}
      \cup {Arr(ws) : ws \in DistinctSeqs(ListedWorkflows, MaxListing)}

\* The workflow keys a caller asks for.
RequestedKeys == {"k1", "order-shipped", "missing"}

KeyLists == DistinctSeqs(RequestedKeys, MaxKeys)

\* The bucket names a grant uses: those of the registries and of
\* ToolkitConfig (src/src/types.ts lines 93-110).
GrantBuckets == {"read", "manage", "trigger", "run"}

\* The values a bucket of a grant is given: a boolean, and for trigger
\* also undefined or a list of workflow keys (src/src/types.ts lines 79-112).
BucketValues(b) ==
    IF b = "trigger"
    THEN {Bool(TRUE), Bool(FALSE), Undefined,
          Arr(<< >>), Arr(<< "k1" >>), Arr(<< "order-shipped", "k1" >>),
          Arr(<< "order-shipped", "order_shipped" >>)}
    ELSE {Bool(TRUE), Bool(FALSE)}

\* Bucket values of a shape the types do not allow, which a caller that is
\* not type-checked can still hand over.
MalformedValues == {Str(<< "yes" >>)}

RECURSIVE BucketProps(_, _, _)
\* The property lists of n distinct buckets named from names, each valued
\* as BucketValues says or from extra.
BucketProps(names, extra, n) ==
    IF n = 0 THEN {<< >>}
    ELSE UNION {{<< Prop(b, v) >> \o rest :
                    v \in extra \cup BucketValues(b),
                    rest \in BucketProps(names \ {b}, extra, n - 1)} :
                 b \in names}

\* The grants of one category with exactly n buckets.
CategoryGrants(names, extra, n) ==
    {Obj(props) : props \in BucketProps(names, extra, n)}

\* Category keys no registry has: a plain name, and a name every object
\* inherits from Object.prototype.
UnknownCategories == {"nope", "constructor"}

\* The category keys a grant uses.
GrantCategories == {"users", "workflows"} \cup UnknownCategories

\* The buckets a grant gives a category key.
GrantBucketsOf(c) == IF c \in UnknownCategories THEN {"read"} ELSE GrantBuckets

\* The keys a category entry adds to a grant: its own and its buckets'.
GrantSize(g) == IF g.t = "object" THEN 1 + Len(g.props) ELSE 1

RECURSIVE GrantsOver(_, _)
\* The entries of config.permissions for the category keys cs, in that
\* order, with at most budget keys in all.
GrantsOver(cs, budget) ==
    IF cs = << >> THEN {<< >>}
    ELSE UNION {{<< Prop(Head(cs), g) >> \o rest :
                    rest \in GrantsOver(Tail(cs), budget - GrantSize(g))} :
                 g \in {h \in {Undefined} \cup
                           UNION {CategoryGrants(GrantBucketsOf(Head(cs)), {}, n) :
                                     n \in {m \in 0..MaxBuckets : m < budget}} :
                         GrantSize(h) <= budget}}

\* The values of config.permissions.
PermissionGrants ==
    UNION {{Obj(entries) : entries \in GrantsOver(cs, MaxGrantEntries)} :
              cs \in DistinctSeqs(GrantCategories, Cardinality(GrantCategories))}

-----------------------------------------------------------------------------
(* The state machine.                                                      *)

NoCall == [op |-> "none"]

\* No resume has completed since the side table was last written.
NoResume == [t |-> "none"]

\* No toolkit has been created.
NoToolkit == [t |-> "none"]

\* lib/knock-client.ts as loaded: the cache is {} (line 8) and no call of
\* publicApi has been made.
ClientInit ==
    /\ serviceTokensToApiClients = Obj(<< >>)
    /\ exchanges = << >>
    /\ exchanging = {}
    /\ returned = {}

NoResult == [status |-> "none", value |-> << >>, error |-> "", message |-> ""]

Init ==
    /\ registry \in Registries
    /\ pc = "idle"
    /\ call = NoCall
    /\ result = NoResult
    /\ hitl = "part_012"
    /\ wrappedToolsRequiringInput = Map(<< >>)
    /\ deferringTools = {}
    /\ inflight = {}
    /\ lastCompleted = NoResume
    /\ steps = << >>
    /\ toolkit = NoToolkit
    /\ ClientInit

\* The local server (src/src/modelcontextprotocol/local-server.ts line 84)
\* or a test calls filterTools with a registry and a pattern.
FilterTools ==
    /\ pc = "idle"
    /\ \E tls \in {registry.tools, mockTools} :
         \E pattern \in Patterns(tls) :
            /\ call' = [op |-> "filterTools", tools |-> tls, pattern |-> pattern]
            /\ result' = filterTools(tls, pattern)
    /\ pc' = "done"
    /\ UNCHANGED << registry, toolkitVars, steps, toolkit, clientVars >>

\* The caller takes the result; the next call can be made.
Finish ==
    /\ pc = "done"
    /\ pc' = "idle"
    /\ call' = NoCall
    /\ result' = NoResult
    /\ steps' = << >>
    /\ lastCompleted' =
          IF call.op = "resumeToolExecution" /\ result.status = "return"
          THEN [t |-> "resume", toolInteraction |-> call.toolInteraction,
                result |-> result.value]
          ELSE lastCompleted
    /\ UNCHANGED << registry, hitl, wrappedToolsRequiringInput,
                    deferringTools, inflight, toolkit, clientVars >>

\* A caller asks for the tools of one category under a grant.
GetToolsWithPermissions ==
    /\ pc = "idle"
    /\ \E category \in CategoryKeys(registry.tools) \cup {"nope"} :
         \E categoryPermissions \in
                 UNION {CategoryGrants(GrantBuckets, MalformedValues, n) :
                           n \in 0..MaxBuckets} :
            /\ call' = [op |-> "getToolsWithPermissions",
                        category |-> category,
                        categoryPermissions |-> categoryPermissions]
            /\ result' = getToolsWithPermissions(registry, category,
                                                 categoryPermissions)
    /\ pc' = "done"
    /\ UNCHANGED << registry, toolkitVars, steps, toolkit, clientVars >>

\* A toolkit or the MCP server asks for the workflow tools.
CreateWorkflowTools ==
    /\ pc = "idle"
    /\ \E listing \in Listings :
         \E workflowKeysToInclude \in
                 {Undefined} \cup {Arr(keys) : keys \in KeyLists} :
            /\ call' = [op |-> "createWorkflowTools",
                        listing |-> listing,
                        workflowKeysToInclude |-> workflowKeysToInclude]
            /\ result' = createWorkflowTools(listing, workflowKeysToInclude)
    /\ pc' = "done"
    /\ UNCHANGED << registry, toolkitVars, steps, toolkit, clientVars >>

\* The listing is not asked for.
NoListing == [t |-> "none"]

\* A toolkit resolves config.permissions; the workflow listing answers
\* only when the function asks for it.
GetToolsByPermissionsInCategories ==
    /\ pc = "idle"
    /\ \E permissions \in PermissionGrants :
         \E listing \in IF HasTriggerList(permissions)
                         THEN Listings ELSE {NoListing} :
            /\ call' = [op |-> "getToolsByPermissionsInCategories",
                        permissions |-> permissions,
                        listing |-> listing]
            /\ result' = getToolsByPermissionsInCategories(registry,
                             permissions, listing)
    /\ pc' = "done"
    /\ UNCHANGED << registry, toolkitVars, steps, toolkit, clientVars >>

Next ==
    \/ FilterTools
    \/ GetToolsWithPermissions
    \/ CreateWorkflowTools
    \/ GetToolsByPermissionsInCategories
    \/ Finish

Spec == Init /\ [][Next]_vars

-----------------------------------------------------------------------------
(* The human-in-the-loop part as a state machine.                          *)

\* The tools a caller wraps: two with an execute function and one that
\* only declares its parameters.
addTool == Tool(<< "Add two numbers together." >>, Original("add"))

sumTool == Tool(<< "Sum a list of numbers." >>, Original("sum"))

confirmTool == Tool(<< "Ask the user to confirm." >>, Undefined)

\* The tool sets the caller builds itself; both have a tool named add.
BaseToolSets ==
    { Obj(<< Prop("add", addTool), Prop("confirm", confirmTool) >>),
      Obj(<< Prop("add", sumTool) >>) }

\* The DeferredToolCallConfig values: without and with the hooks.
InputConfigs ==
    { [workflow |-> "approve-tool-call",
       recipients |-> Arr(<< "admin_user_1" >>),
       metadata |-> Obj(<< Prop("thread", Str(<< "t1" >>)) >>),
       onBeforeCallKnock |-> FALSE, onAfterCallKnock |-> FALSE],
      [workflow |-> "approve-tool-call",
       recipients |-> Arr(<< "admin_user_1" >>),
       metadata |-> Obj(<< Prop("thread", Str(<< "t1" >>)) >>),
       onBeforeCallKnock |-> TRUE, onAfterCallKnock |-> TRUE] }

RECURSIVE ToolSetsWrapped(_)
\* The tool sets that have been through requireHumanInput n times.
ToolSetsWrapped(n) ==
    IF n = 0 THEN BaseToolSets
    ELSE {requireHumanInput(Map(<< >>), ts, cfg).wrapped :
             ts \in ToolSetsWrapped(n - 1), cfg \in InputConfigs}

\* The execute functions of a tool set.
Executors(toolSet) ==
    {toolSet.props[i].val.execute : i \in 1..Len(toolSet.props)}

\* The tool sets a caller can hand to requireHumanInput: its own, and the
\* ones earlier calls returned (their execute functions exist).
ToolSetsToWrap ==
    UNION {{ts \in ToolSetsWrapped(n) :
               n > 0 => Executors(ts) \subseteq deferringTools} :
              n \in 0..(MaxWrapDepth - 1)}

\* The inputs and the ids of the tool calls of the model.
ToolInputs ==
    { Obj(<< Prop("a", Str(<< "1" >>)), Prop("b", Str(<< "2" >>)) >>) }

ToolCallIds == { Str(<< "call_1" >>), Str(<< "call_2" >>) }

\* The step of a call that fails, if any.
FailurePoints ==
    {"none", "publicApi", "onBeforeCallKnock", "trigger",
     "onAfterCallKnock", "execute"}

\* The data of the trigger of a call, if the API accepted it.
Delivered(outcome, fail) ==
    IF fail = "trigger" THEN {}
    ELSE {outcome.steps[i].data :
             i \in {j \in 1..Len(outcome.steps) : outcome.steps[j].step = "trigger"}}

\* The tools the toolkit is permitted: toolsByMethod (part_015 line 134)
\* for the permissions {users: {read: true}}.
toolsByMethod ==
    getToolMap(Flatten(
        [i \in 1..1 |->
            Get(getToolsByPermissionsInCategories(registry,
                    Obj(<< Prop("users", Obj(<< Prop("read", Bool(TRUE)) >>)) >>),
                    NoListing).value, "users").items]))

HitlInit ==
    /\ registry = [tools |-> tools, toolPermissions |-> toolPermissions]
    /\ pc = "idle"
    /\ call = NoCall
    /\ result = NoResult
    /\ hitl \in {"part_012", "index.ts"}
    /\ wrappedToolsRequiringInput = Map(<< >>)
    /\ deferringTools = {}
    /\ inflight = {}
    /\ lastCompleted = NoResume
    /\ steps = << >>
    /\ toolkit = NoToolkit
    /\ ClientInit

\* The caller wraps a tool set (part_015 is the toolkit of the version
\* that has wrapToolDescription).
RequireHumanInput ==
    /\ pc = "idle"
    /\ hitl = "part_012"
    /\ \E toolsToWrap \in ToolSetsToWrap, inputConfig \in InputConfigs :
         LET made == requireHumanInput(wrappedToolsRequiringInput,
                                       toolsToWrap, inputConfig)
         IN  /\ call' = [op |-> "requireHumanInput",
                         toolsToWrap |-> toolsToWrap,
                         inputConfig |-> inputConfig]
             /\ wrappedToolsRequiringInput' = made.table
             /\ deferringTools' = deferringTools \cup Executors(made.wrapped)
             /\ result' = Return(made.wrapped)
    /\ pc' = "done"
    /\ steps' = << >>
    /\ lastCompleted' = NoResume
    /\ UNCHANGED << registry, hitl, inflight, toolkit, clientVars >>

\* The agent framework invokes a wrapped tool.
InvokeWrappedTool ==
    /\ pc = "idle"
    /\ \E execute \in deferringTools, input \in ToolInputs,
          toolCallId \in ToolCallIds, fail \in FailurePoints :
         LET options == Obj(<< Prop("toolCallId", toolCallId) >>)
             ran == Execute(hitl, execute, input, options, fail)
         IN  /\ Cardinality(inflight \cup Delivered(ran, fail)) <= MaxInFlight
             /\ call' = [op |-> "execute", execute |-> execute,
                         input |-> input, options |-> options]
             /\ result' = ran.res
             /\ steps' = ran.steps
             /\ inflight' = inflight \cup Delivered(ran, fail)
    /\ pc' = "done"
    /\ UNCHANGED << registry, hitl, wrappedToolsRequiringInput,
                    deferringTools, lastCompleted, toolkit, clientVars >>

\* The DeferredToolCall values a caller hands to resumeToolExecution: the
\* ones the approval workflows carry, and calls of methods that need not be
\* wrapped.
ResumableCalls ==
    {Get(data, "tool_call") : data \in inflight}
      \cup {DeferredToolCall(Str(<< m >>), input,
                Obj(<< Prop("toolCallId", id) >>)) :
               m \in {"add", "get_user", "zz"}, input \in ToolInputs,
               id \in ToolCallIds}

\* The caller resumes a deferred call.
ResumeToolExecution ==
    /\ pc = "idle"
    /\ hitl = "part_012"
    /\ \E toolInteraction \in ResumableCalls, fail \in FailurePoints :
         LET ran == resumeToolExecution(hitl, wrappedToolsRequiringInput,
                        toolsByMethod, toolInteraction, fail)
         IN  /\ Cardinality(inflight \cup Delivered(ran, fail)) <= MaxInFlight
             /\ call' = [op |-> "resumeToolExecution",
                         toolInteraction |-> toolInteraction]
             /\ result' = ran.res
             /\ steps' = ran.steps
             /\ inflight' = inflight \cup Delivered(ran, fail)
             /\ wrappedToolsRequiringInput' =
                   TableAfterResume(wrappedToolsRequiringInput,
                                    toolInteraction)
    /\ pc' = "done"
    /\ UNCHANGED << registry, hitl, deferringTools, lastCompleted, toolkit,
                    clientVars >>

\* The DeferredToolCall values a caller hands to the exported
\* triggerHumanInTheLoopWorkflow itself.
DirectToolCalls ==
    {DeferredToolCall(Str(<< "add" >>), input,
         Obj(<< Prop("toolCallId", id) >>)) :
        input \in ToolInputs, id \in ToolCallIds}

\* A caller triggers the approval workflow for a tool call.
TriggerHumanInTheLoopWorkflow ==
    /\ pc = "idle"
    /\ \E toolCall \in DirectToolCalls, inputConfig \in InputConfigs,
          fail \in FailurePoints :
         LET ran == triggerHumanInTheLoopWorkflow(hitl, toolCall,
                                                  inputConfig, fail)
         IN  /\ Cardinality(inflight \cup Delivered(ran, fail)) <= MaxInFlight
             /\ call' = [op |-> "triggerHumanInTheLoopWorkflow",
                         toolCall |-> toolCall, inputConfig |-> inputConfig]
             /\ result' = ran.res
             /\ steps' = ran.steps
             /\ inflight' = inflight \cup Delivered(ran, fail)
    /\ pc' = "done"
    /\ UNCHANGED << registry, hitl, wrappedToolsRequiringInput,
                    deferringTools, lastCompleted, toolkit, clientVars >>

\* Message data that no approval workflow of this program sent: empty,
\* tagged without a tool call, and a tool call under another tag.
OtherMessageData ==
    { Obj(<< >>),
      Obj(<< Prop("type", Str(<< "deferred_tool_call" >>)) >>),
      Obj(<< Prop("type", Str(<< "digest" >>)),
             Prop("tool_call",
                  DeferredToolCall(Str(<< "add" >>), Undefined, Undefined)) >>) }

\* The webhook events Knock sends: about a message of an approval
\* workflow, whose data is the data of the trigger, or about another
\* message.
WebhookEvents ==
    {WebhookEvent(type, Str(<< "2025-05-01T10:00:00Z" >>),
         Message(Str(<< "msg_1" >>), Str(<< "chan_1" >>),
                 Str(<< "approve-tool-call" >>), data),
         Obj(<< Prop("action", Str(<< "approve" >>)) >>)) :
        type \in {Str(<< "message.interacted" >>), Str(<< "message.delivered" >>)},
        data \in inflight \cup OtherMessageData}

\* The webhook handler of the caller passes an event on.
HandleMessageInteraction ==
    /\ pc = "idle"
    /\ \E event \in WebhookEvents :
         /\ call' = [op |-> "handleMessageInteraction", event |-> event]
         /\ result' = handleMessageInteraction(hitl, event)
    /\ pc' = "done"
    /\ steps' = << >>
    /\ UNCHANGED << registry, toolkitVars, toolkit, clientVars >>

HitlNext ==
    \/ RequireHumanInput
    \/ InvokeWrappedTool
    \/ ResumeToolExecution
    \/ TriggerHumanInTheLoopWorkflow
    \/ HandleMessageInteraction
    \/ Finish

HitlSpec == HitlInit /\ [][HitlNext]_vars

-----------------------------------------------------------------------------
(* Properties of filterTools.                                              *)

FilterDone == pc = "done" /\ call.op = "filterTools"

\* The pattern of the call as a JavaScript string ("" when undefined).
PatternString ==
    IF call.pattern.t = "string" THEN Join(call.pattern.atoms) ELSE ""

\* The tools of the i-th category of a registry, in declaration order.
CategoryAt(tls, i) == tls.props[i].val.props

RECURSIVE Offset(_, _)
\* The number of tools in the categories before the i-th.
Offset(tls, i) ==
    IF i = 1 THEN 0 ELSE Offset(tls, i - 1) + Len(CategoryAt(tls, i - 1))

\* list holds every tool of every category once: the j-th tool of the i-th
\* category sits after all tools of the categories before it.
IsFullFlattening(tls, list) ==
    /\ Len(list) = Offset(tls, Len(tls.props) + 1)
    /\ \A i \in 1..Len(tls.props) :
         \A j \in 1..Len(CategoryAt(tls, i)) :
            list[Offset(tls, i) + j] = CategoryAt(tls, i)[j].val

\* C1: for every registry, the patterns "*" and "*.*" return every tool of
\* every category exactly once, categories in registry order and tools in
\* declaration order; the length is the sum of the category sizes.
C1_StarReturnsAllTools ==
    (FilterDone /\ PatternString \in {"*", "*.*"}) =>
        /\ result.status = "return"
        /\ IsFullFlattening(call.tools, result.value)

\* A call with "*.*" on the shipped registry returned more than one
\* category's tools.
C1_Witness ==
    /\ FilterDone
    /\ PatternString = "*.*"
    /\ call.tools = tools
    /\ result.status = "return"
    /\ Len(result.value) > Len(CategoryAt(call.tools, 1))

\* C2: for every category c of the registry, "c.*" returns exactly the
\* tools registered under c, in declaration order, and no tool of another
\* category.
C2_CategoryStarReturnsCategory ==
    FilterDone =>
        \A i \in 1..Len(call.tools.props) :
            PatternString = call.tools.props[i].key \o ".*" =>
                /\ result.status = "return"
                /\ Len(result.value) = Len(CategoryAt(call.tools, i))
                /\ \A j \in 1..Len(result.value) :
                      result.value[j] = CategoryAt(call.tools, i)[j].val
                /\ \A j \in 1..Len(result.value) :
                      \A i2 \in 1..Len(call.tools.props) :
                         i2 # i =>
                            \A j2 \in 1..Len(CategoryAt(call.tools, i2)) :
                               result.value[j] # CategoryAt(call.tools, i2)[j2].val

\* "users.*" on the shipped registry returned the five user tools.
C2_Witness ==
    /\ FilterDone
    /\ PatternString = "users.*"
    /\ call.tools = tools
    /\ result.status = "return"
    /\ [j \in 1..Len(result.value) |-> result.value[j].method]
          = << "get_user", "upsert_user", "get_user_preferences",
               "set_user_preferences", "get_user_messages" >>

\* C3 as stated: for every category and every tool registered in it, the
\* pattern "category.tool" returns a one-element list whose element's method
\* field equals the tool name given in the pattern.
C3_Original_MethodEqualsPatternName ==
    FilterDone =>
        \A i \in 1..Len(call.tools.props) :
            \A j \in 1..Len(CategoryAt(call.tools, i)) :
                PatternString = call.tools.props[i].key \o "."
                                  \o CategoryAt(call.tools, i)[j].key =>
                    /\ result.status = "return"
                    /\ Len(result.value) = 1
                    /\ result.value[1].method = CategoryAt(call.tools, i)[j].key

\* C3 (amended): for every category and every tool key registered in it,
\* the pattern "category.key" returns a one-element list holding the
\* descriptor registered under that key; the tool segment of the pattern is
\* the registry key, and the descriptor's method field is the method it was
\* declared with.
C3_SingleToolByRegistryKey ==
    FilterDone =>
        \A i \in 1..Len(call.tools.props) :
            \A j \in 1..Len(CategoryAt(call.tools, i)) :
                PatternString = call.tools.props[i].key \o "."
                                  \o CategoryAt(call.tools, i)[j].key =>
                    /\ result.status = "return"
                    /\ result.value = << CategoryAt(call.tools, i)[j].val >>

\* "users.getUser" on the shipped registry returned the one tool whose
\* method is get_user.
C3_Witness ==
    /\ FilterDone
    /\ PatternString = "users.getUser"
    /\ call.tools = tools
    /\ result.status = "return"
    /\ Len(result.value) = 1
    /\ result.value[1].method = "get_user"

\* The first two segments of the pattern of the call.
PatternParts == Split(call.pattern.atoms)

\* C4: filterTools returns nothing for a pattern that does not resolve: an
\* undefined or empty pattern fails with "No pattern provided"; otherwise a
\* category segment that is not a registry category (the empty one included)
\* fails with "Tool category <category> not found"; otherwise a tool segment
\* that is not registered in the category (the empty one included) fails
\* with "Tool <pattern> not found".
C4_ErrorsForUnresolvedPatterns ==
    FilterDone =>
        IF call.pattern.t = "undefined" \/ PatternString = ""
        THEN result = Throw("Error", "No pattern provided")
        ELSE IF \/ PatternString = "*"
                \/ /\ Len(PatternParts) >= 2
                   /\ PatternParts[1] = "*"
                   /\ PatternParts[2] = "*"
        THEN TRUE
        ELSE IF ~HasOwn(call.tools, PatternParts[1])
        THEN result = Throw("Error",
                 "Tool category " \o PatternParts[1] \o " not found")
        ELSE IF /\ Len(PatternParts) >= 2
                /\ PatternParts[2] # "*"
                /\ ~HasOwn(Get(call.tools, PatternParts[1]), PatternParts[2])
        THEN result = Throw("Error", "Tool " \o PatternString \o " not found")
        ELSE TRUE

\* C5: a pattern that is a category name alone returns what "category.*"
\* returns: all tools of the category.
C5_BareCategoryReturnsCategory ==
    FilterDone =>
        \A i \in 1..Len(call.tools.props) :
            PatternString = call.tools.props[i].key =>
                /\ result.status = "return"
                /\ result.value =
                      [j \in 1..Len(CategoryAt(call.tools, i)) |->
                          CategoryAt(call.tools, i)[j].val]

-----------------------------------------------------------------------------
(* Properties of the permission resolver.                                  *)

WithPermissionsDone == pc = "done" /\ call.op = "getToolsWithPermissions"

ByCategoriesDone ==
    pc = "done" /\ call.op = "getToolsByPermissionsInCategories"

WorkflowToolsDone == pc = "done" /\ call.op = "createWorkflowTools"

\* The tool names bucket b of category c lists in the registry.
BucketOf(c, b) == Get(Get(registry.toolPermissions, c), b).items

\* The descriptor registered in category c under a tool name.
ToolOf(c, name) == Get(Get(registry.tools, c), name)

NoDuplicates(list) ==
    \A i, j \in 1..Len(list) : i # j => list[i] # list[j]

\* C6: for every category c and every bucket b of c, the grant {b: true}
\* resolves to exactly the descriptors whose names bucket b lists, in the
\* order the bucket lists them, without duplicates, and to no descriptor
\* that bucket b does not name.
C6_TrueBucketResolvesToItsTools ==
    (/\ WithPermissionsDone
     /\ HasOwn(registry.toolPermissions, call.category)
     /\ Len(call.categoryPermissions.props) = 1
     /\ call.categoryPermissions.props[1].val = Bool(TRUE)
     /\ HasOwn(Get(registry.toolPermissions, call.category),
               call.categoryPermissions.props[1].key))
    =>
    LET c      == call.category
        bucket == BucketOf(c, call.categoryPermissions.props[1].key)
    IN  /\ result.status = "return"
        /\ Len(result.value) = Len(bucket)
        /\ \A i \in 1..Len(bucket) : result.value[i] = ToolOf(c, bucket[i])
        /\ NoDuplicates(result.value)
        /\ \A k \in ToolKeys(registry.tools) :
              (\A i \in 1..Len(bucket) : bucket[i] # k) =>
                  \A i \in 1..Len(result.value) :
                      result.value[i] # ToolOf(c, k)

\* users with {read: true} on the shipped registry resolved to the three
\* read tools, in the order of the bucket.
C6_Witness ==
    /\ WithPermissionsDone
    /\ registry.tools = tools
    /\ call.category = "users"
    /\ call.categoryPermissions = Obj(<< Prop("read", Bool(TRUE)) >>)
    /\ result.status = "return"
    /\ [i \in 1..Len(result.value) |-> result.value[i].method]
          = << "get_user", "get_user_messages", "get_user_preferences" >>

\* The value of bucket b of category c in the grant of the call is true or
\* a non-empty list.
GrantedInCall(c, b) ==
    LET v == Get(Get(call.permissions, c), b)
    IN  \/ v = Bool(TRUE)
        \/ v.t = "array" /\ v.items # << >>

\* The descriptor d is one that a granted bucket of category c names.
NamedInGrantedBucket(c, d) ==
    \E b \in GrantBuckets :
        /\ GrantedInCall(c, b)
        /\ HasOwn(Get(registry.toolPermissions, c), b)
        /\ \E i \in 1..Len(BucketOf(c, b)) : d = ToolOf(c, BucketOf(c, b)[i])

\* The descriptor d is synthesized from a workflow key the grant lists.
SynthesizedFromGrantedKey(c, d) ==
    /\ c = "workflows"
    /\ d.key # ""
    /\ Get(Get(call.permissions, "workflows"), "trigger").t = "array"
    /\ Includes(Get(Get(call.permissions, "workflows"), "trigger").items, d.key)

\* C7 (default-deny): in the output of getToolsByPermissionsInCategories
\* every descriptor listed for a category is named in a bucket of that
\* category whose grant value is true or a non-empty list, or is
\* synthesized from a workflow key the grant lists; a category none of
\* whose buckets is granted and that lists no workflow key resolves to the
\* empty list; a category that is not a key of the grant has no entry.
C7_DefaultDeny ==
    (ByCategoriesDone /\ result.status = "return") =>
        \A e \in 1..Len(result.value.props) :
            LET c    == result.value.props[e].key
                list == result.value.props[e].val.items
            IN  /\ HasOwn(call.permissions, c)
                /\ \A i \in 1..Len(list) :
                      \/ NamedInGrantedBucket(c, list[i])
                      \/ SynthesizedFromGrantedKey(c, list[i])
                /\ (\A b \in GrantBuckets : ~GrantedInCall(c, b)) =>
                      list = << >>

\* A grant with users {read: false, manage: true} and no workflows entry
\* resolved users to the manage tools only.
C7_Witness ==
    /\ ByCategoriesDone
    /\ registry.tools = tools
    /\ call.permissions =
          Obj(<< Prop("users", Obj(<< Prop("read", Bool(FALSE)),
                                      Prop("manage", Bool(TRUE)) >>)) >>)
    /\ result.status = "return"
    /\ Len(result.value.props) = 1
    /\ [i \in 1..Len(result.value.props[1].val.items) |->
           result.value.props[1].val.items[i].method]
          = << "upsert_user", "set_user_preferences" >>

DeclarationIndex(c, d) ==
    LET declared == Values(Get(registry.tools, c))
    IN  IF \E i \in 1..Len(declared) : declared[i] = d
        THEN CHOOSE i \in 1..Len(declared) : declared[i] = d
        ELSE 0

\* The tools synthesized for the listing of the call and the keys the
\* grant lists, in the order of the listing.
ExpectedWorkflowTools ==
    LET keys == Get(Get(call.permissions, "workflows"), "trigger").items
        Asked(w) == Includes(keys, Join(w.key))
        asked == SelectSeq(call.listing.items, Asked)
    IN  [i \in 1..Len(asked) |-> workflowAsTool(asked[i])]

\* The number of synthesized tools at the end of a resolved list.
SynthesizedCount(c) ==
    IF c = "workflows" /\ HasTriggerList(call.permissions)
    THEN Len(ExpectedWorkflowTools) ELSE 0

\* C9 as stated: the resolved list of a category is the statically declared
\* tools in registry declaration order, whatever the order of the bucket
\* keys in the grant, followed by the synthesized tools in the order of the
\* external listing.
C9_Original_DeclarationOrder ==
    (ByCategoriesDone /\ result.status = "return") =>
        \A e \in 1..Len(result.value.props) :
            LET c    == result.value.props[e].key
                list == result.value.props[e].val.items
                n    == Len(list) - SynthesizedCount(c)
            IN  /\ n >= 0
                /\ \A i, j \in 1..n :
                      i < j => DeclarationIndex(c, list[i])
                                  <= DeclarationIndex(c, list[j])
                /\ SynthesizedCount(c) > 0 =>
                      SubSeq(list, n + 1, Len(list)) = ExpectedWorkflowTools

\* The static tools of category c under the grant of the call: the granted
\* buckets in the order of their keys in the grant, each with its tools in
\* the order the bucket lists them.
ExpectedStaticTools(c) ==
    LET entries == Get(call.permissions, c).props
    IN  Flatten([i \in 1..Len(entries) |->
            IF GrantedInCall(c, entries[i].key)
            THEN LET bucket == BucketOf(c, entries[i].key)
                 IN  [j \in 1..Len(bucket) |-> ToolOf(c, bucket[j])]
            ELSE << >>])

\* C9 (amended): the resolved list of a category is the tools of the
\* granted buckets, the buckets in the order their keys appear in the grant
\* and each bucket's tools in the order the bucket lists them, followed by
\* the synthesized workflow tools in the order of the external listing,
\* whatever the order of the keys in the grant's list.
C9_GrantOrderThenListingOrder ==
    (ByCategoriesDone /\ result.status = "return") =>
        \A e \in 1..Len(result.value.props) :
            LET c    == result.value.props[e].key
                list == result.value.props[e].val.items
            IN  list = ExpectedStaticTools(c)
                          \o (IF SynthesizedCount(c) > 0
                              THEN ExpectedWorkflowTools ELSE << >>)

\* A grant of workflows {read: true, trigger: [order-shipped, k1]} against
\* a listing that returns k1 before order-shipped resolved to the read
\* tool, the trigger tool and then the two synthesized tools in the order
\* of the listing.
C9_Witness ==
    /\ ByCategoriesDone
    /\ registry.tools = tools
    /\ call.permissions =
          Obj(<< Prop("workflows",
                    Obj(<< Prop("read", Bool(TRUE)),
                           Prop("trigger", Arr(<< "order-shipped", "k1" >>)) >>)) >>)
    /\ call.listing.t = "array"
    /\ [i \in 1..Len(call.listing.items) |-> Join(call.listing.items[i].key)]
          = << "k1", "order_shipped", "order-shipped" >>
    /\ result.status = "return"
    /\ [i \in 1..Len(result.value.props[1].val.items) |->
           result.value.props[1].val.items[i].method]
          = << "list_workflows", "trigger_workflow",
               "trigger_k1_workflow", "trigger_order_shipped_workflow" >>

\* The positions of the listing whose workflow createWorkflowTools is
\* asked to include.
AskedPositions ==
    {i \in 1..Len(call.listing.items) :
        \/ call.workflowKeysToInclude.t = "undefined"
        \/ Includes(call.workflowKeysToInclude.items,
                    Join(call.listing.items[i].key))}

\* C10: createWorkflowTools synthesizes exactly one tool per workflow of
\* the listing whose key is in the key list and none for the others; a key
\* that is not in the listing gives no tool and no error; without a key
\* list it synthesizes one tool for every workflow of the listing.
C10_OneToolPerRequestedWorkflow ==
    (WorkflowToolsDone /\ call.listing.t = "array") =>
        /\ result.status = "return"
        /\ Len(result.value) = Cardinality(AskedPositions)
        /\ \A i \in AskedPositions :
              Cardinality({j \in 1..Len(result.value) :
                  result.value[j] = workflowAsTool(call.listing.items[i])}) = 1
        /\ \A j \in 1..Len(result.value) :
              \E i \in AskedPositions :
                  result.value[j] = workflowAsTool(call.listing.items[i])

\* Keys [k1, order-shipped] against a listing of three workflows gave two
\* tools.
C10_Witness ==
    /\ WorkflowToolsDone
    /\ call.workflowKeysToInclude = Arr(<< "k1", "order-shipped" >>)
    /\ call.listing.t = "array"
    /\ Len(call.listing.items) = 3
    /\ result.status = "return"
    /\ Len(result.value) = 2

-----------------------------------------------------------------------------
(* Properties of grants that list workflow keys.                           *)

\* The workflow keys the grant of the call lists.
GrantedKeys == Get(Get(call.permissions, "workflows"), "trigger")

\* The grant of the call lists at least one workflow key and grants no
\* other bucket of workflows.
OnlyTriggerListGranted ==
    /\ HasTriggerList(call.permissions)
    /\ GrantedKeys.items # << >>
    /\ \A b \in GrantBuckets \ {"trigger"} : ~GrantedInCall("workflows", b)

\* Every tool of every category in the output of the call.
ResolvedTools ==
    Flatten([e \in 1..Len(result.value.props) |->
                 result.value.props[e].val.items])

\* C11: a grant whose workflows.trigger is a non-empty list of workflow
\* keys K resolves without error, every synthesized tool of the output is
\* bound to a key of K, and the generic tool registered as triggerWorkflow,
\* which triggers any workflow, is not in the output.
C11_TriggerListLimitsWorkflows ==
    (ByCategoriesDone /\ OnlyTriggerListGranted /\ call.listing.t = "array")
    =>
    /\ result.status = "return"
    /\ \A i \in 1..Len(ResolvedTools) :
          LET d == ResolvedTools[i]
          IN  /\ d.key # "" => Includes(GrantedKeys.items, d.key)
              /\ d # ToolOf("workflows", "triggerWorkflow")

\* C12: in the output of getToolsByPermissionsInCategories any two
\* different descriptors have different methods, and the map getToolMap
\* builds from the output holds every descriptor under its method.
C12_MethodsAreUnique ==
    (ByCategoriesDone /\ result.status = "return") =>
        /\ \A i, j \in 1..Len(ResolvedTools) :
              ResolvedTools[i] # ResolvedTools[j] =>
                  ResolvedTools[i].method # ResolvedTools[j].method
        /\ \A i \in 1..Len(ResolvedTools) :
              Get(getToolMap(ResolvedTools), ResolvedTools[i].method)
                  = ResolvedTools[i]

\* A bucket value that is neither a boolean nor a list (undefined stands
\* for a bucket that is left out).
Malformed(v) == v.t \notin {"boolean", "array", "undefined"}

\* C13: a grant one of whose bucket values is neither a boolean nor a list
\* of strings makes getToolsWithPermissions fail with
\* InvalidPermissionGrant.
C13_MalformedGrantFails ==
    (/\ WithPermissionsDone
     /\ \E i \in 1..Len(call.categoryPermissions.props) :
           Malformed(call.categoryPermissions.props[i].val))
    =>
    /\ result.status = "throw"
    /\ result.error = "InvalidPermissionGrant"

\* The category keys of the grant of the call that the registry does not
\* have.
UnknownKeys ==
    {k \in {Keys(call.permissions)[i] : i \in 1..Len(Keys(call.permissions))} :
        ~HasOwn(registry.tools, k)}

\* The grant of the call without its unknown category keys.
KnownPermissions ==
    LET Known(entry) == entry.key \notin UnknownKeys
    IN  Obj(SelectSeq(call.permissions.props, Known))

\* C14: a grant with a category key the registry does not have resolves as
\* the same grant without that key does: no error comes of the key, the
\* output has no entry for it, and the other categories resolve to the
\* same lists.
C14_UnknownCategorySkipped ==
    (ByCategoriesDone /\ UnknownKeys # {}) =>
        /\ result = getToolsByPermissionsInCategories(registry,
                        KnownPermissions, call.listing)
        /\ result.status = "return" =>
              \A k \in UnknownKeys : ~HasOwn(result.value, k)

\* C15: with the grant {workflows: {run: true}} on a registry whose
\* workflows category has a run bucket, the external listing is asked for
\* and the workflows list of the output is the tools of the run bucket
\* followed by one synthesized trigger tool per workflow of the listing.
C15_RunGrantIncludesWorkflowTriggers ==
    (/\ ByCategoriesDone
     /\ HasOwn(Get(registry.toolPermissions, "workflows"), "run")
     /\ call.permissions
           = Obj(<< Prop("workflows", Obj(<< Prop("run", Bool(TRUE)) >>)) >>))
    =>
    /\ call.listing.t = "array"
    /\ result.status = "return"
    /\ Get(result.value, "workflows").items
          = [i \in 1..Len(BucketOf("workflows", "run")) |->
                 ToolOf("workflows", BucketOf("workflows", "run")[i])]
              \o [i \in 1..Len(call.listing.items) |->
                     workflowAsTool(call.listing.items[i])]

-----------------------------------------------------------------------------
(* Properties of the human-in-the-loop part, under HitlSpec.                *)

InvokeDone == pc = "done" /\ call.op = "execute"

ResumeDone == pc = "done" /\ call.op = "resumeToolExecution"

HandleDone == pc = "done" /\ call.op = "handleMessageInteraction"

\* The places in the log of the call where a caller's execute function ran
\* and where the approval workflow was triggered.
ExecuteSteps == {i \in 1..Len(steps) : steps[i].step = "execute"}

TriggerSteps == {i \in 1..Len(steps) : steps[i].step = "trigger"}

\* The messages of the errors a failing API call or hook raises.
TriggerFailures ==
    {"publicApi failed", "onBeforeCallKnock failed",
     "workflows.trigger failed", "onAfterCallKnock failed"}

\* C16: invoking a wrapped tool never runs an execute function of the
\* caller; every trigger it makes is of the configured workflow with the
\* DeferredToolCall {method, args = the input, extra.toolCallId = the id of
\* the invocation}; it returns the pending-input status with that id after
\* exactly one trigger, unless the API or a hook failed.
C16_InvocationDefers ==
    InvokeDone =>
        LET id       == Get(call.options, "toolCallId")
            expected == DeferredToolCall(Str(<< call.execute.method >>),
                            call.input, Obj(<< Prop("toolCallId", id) >>))
        IN  /\ ExecuteSteps = {}
            /\ \A i \in TriggerSteps :
                  /\ steps[i].workflow = call.execute.inputConfig.workflow
                  /\ steps[i].recipients = call.execute.inputConfig.recipients
                  /\ Get(steps[i].data, "tool_call") = expected
            /\ result.status = "return" =>
                  /\ result.value = PendingInput(id)
                  /\ Cardinality(TriggerSteps) = 1
            /\ result.status = "throw" => result.message \in TriggerFailures

C16_Witness ==
    /\ InvokeDone
    /\ call.execute.method = "add"
    /\ result = Return(PendingInput(Str(<< "call_2" >>)))
    /\ Cardinality(TriggerSteps) = 1
    /\ Get(steps[CHOOSE i \in TriggerSteps : TRUE].data, "tool_call")
          = DeferredToolCall(Str(<< "add" >>), call.input,
                Obj(<< Prop("toolCallId", Str(<< "call_2" >>)) >>))

\* The method of the call being resumed, and whether requireHumanInput
\* wrapped a tool of that name on this toolkit.
ResumedMethod == MethodKey(Get(call.toolInteraction, "method"))

ResumedWrapped == MapHas(wrappedToolsRequiringInput, ResumedMethod)

\* C17: resuming a call whose method was wrapped, when the wrapped tool
\* has an execute function and that function does not fail, runs an
\* execute function of the caller exactly once, with the args of the call
\* and extra as options, triggers no workflow, and returns the completed
\* status with extra.toolCallId and the value the function returned.
C17_ResumeRunsOriginalOnce ==
    (/\ ResumeDone
     /\ ResumedWrapped
     /\ Truthy(MapGet(wrappedToolsRequiringInput, ResumedMethod).execute)
     /\ ~(result.status = "throw" /\ result.message = "execute failed"))
    =>
    LET args  == Get(call.toolInteraction, "args")
        extra == Get(call.toolInteraction, "extra")
    IN  /\ Cardinality(ExecuteSteps) = 1
        /\ TriggerSteps = {}
        /\ \A i \in ExecuteSteps :
              /\ steps[i].args = args
              /\ steps[i].options = extra
              /\ result = Return(Completed(Get(extra, "toolCallId"),
                              ResultOf(steps[i].executor, args)))

\* C18: resuming a call whose method requireHumanInput never wrapped on
\* this toolkit fails with the not-found error and takes no step: no
\* execute function runs and no workflow is triggered, whether or not the
\* toolkit is permitted a tool of that name.
C18_UnwrappedMethodNotFound ==
    (ResumeDone /\ ~ResumedWrapped) =>
        /\ result = Throw("Error", "Tool \"" \o ResumedMethod
              \o "\" not found. Did you forget to wrap the tool with requireHumanInput?")
        /\ steps = << >>

C18_Witness ==
    /\ ResumeDone
    /\ ResumedMethod = "get_user"
    /\ HasOwn(toolsByMethod, "get_user")
    /\ MapHas(wrappedToolsRequiringInput, "add")
    /\ ~ResumedWrapped
    /\ result.status = "throw"
    /\ steps = << >>

\* The event handleMessageInteraction was called with and its parts.
HandledMessage == Get(call.event, "data")

HandledData == Get(HandledMessage, "data")

C20_RoundTrip ==
    (/\ HandleDone
     /\ Get(call.event, "type") = Str(<< "message.interacted" >>)
     /\ HandledData \in inflight)
    =>
    /\ result.status = "return"
    /\ result.value.t = "object"
    /\ \A k \in {"method", "args", "extra"} :
          Get(Get(result.value, "toolCall"), k)
            = Get(Get(HandledData, "tool_call"), k)
\* The resume in progress repeats the last one that completed.
ResumedAgain ==
    /\ ResumeDone
    /\ lastCompleted.t = "resume"
    /\ lastCompleted.toolInteraction = call.toolInteraction

\* The keys of the side table.
TableKeys(table) == {table.entries[i].key : i \in 1..Len(table.entries)}

\* The side table is written by requireHumanInput only, and no entry is
\* ever taken out of it.
SideTableFrame ==
    /\ wrappedToolsRequiringInput' # wrappedToolsRequiringInput
          => call'.op = "requireHumanInput"
    /\ TableKeys(wrappedToolsRequiringInput)
          \subseteq TableKeys(wrappedToolsRequiringInput')

\* A resume of the call that was resumed last, with no write of the side
\* table in between, finds the entry again and does what the first did: it
\* returns the same completed status and, when the first ran an original
\* execute function, runs it once more.
SecondResumeRunsAgain ==
    ResumedAgain =>
        /\ ResumedWrapped
        /\ result.status = "throw" =>
              result.message \in TriggerFailures \cup {"execute failed"}
        /\ result.status = "return" =>
              /\ result.value = lastCompleted.result
              /\ Get(result.value, "status") = Str(<< "completed" >>)
              /\ Get(result.value, "result").t = "result" =>
                    Cardinality(ExecuteSteps) = 1

\* C25: only requireHumanInput writes the side table of method to tool,
\* resumeToolExecution leaves it as it was whether it succeeds or fails,
\* and no entry is evicted; so resuming the same DeferredToolCall a second
\* time executes the original logic again and returns a second completed
\* status.
C25_ResumeLeavesSideTable ==
    [][SideTableFrame]_vars /\ [](SecondResumeRunsAgain)

C25_Witness ==
    /\ ResumedAgain
    /\ result = Return(lastCompleted.result)
    /\ Get(result.value, "result").t = "result"
    /\ Cardinality(ExecuteSteps) = 1

\* What a wrapped invocation does when nothing fails, for the toolCall and
\* the configuration it was wrapped with: the hook before, the trigger,
\* the hook after with the answer of the trigger.
DeferralSteps(toolCall, inputConfig) ==
    (IF inputConfig.onBeforeCallKnock
     THEN << [step |-> "onBeforeCallKnock", toolCall |-> toolCall] >>
     ELSE << >>)
    \o << [step |-> "trigger", workflow |-> inputConfig.workflow,
           data |-> Obj(<< Prop("type", Str(<< "deferred_tool_call" >>)),
                           Prop("tool_call", toolCall),
                           Prop("metadata", inputConfig.metadata) >>),
           recipients |-> inputConfig.recipients] >>
    \o (IF inputConfig.onAfterCallKnock
        THEN << [step |-> "onAfterCallKnock", toolCall |-> toolCall,
                 result |-> WorkflowRun] >>
        ELSE << >>)

\* The steps of a sequence up to and including the first one named name.
UpTo(sq, name) ==
    SubSeq(sq, 1, CHOOSE n \in 1..Len(sq) :
                      /\ sq[n].step = name
                      /\ \A m \in 1..(n - 1) : sq[m].step # name)

\* C27: a wrapped invocation runs onBeforeCallKnock(toolCall), then
\* triggers the approval workflow once, then runs
\* onAfterCallKnock(toolCall, result of the trigger), and only then
\* returns the pending-input status; when a hook or the trigger fails the
\* steps end at the failing one, the invocation rejects with that error
\* and no status is returned, so a pending status implies that the data
\* of the trigger reached the workflow.
C27_HooksAroundTrigger ==
    InvokeDone =>
        LET id       == Get(call.options, "toolCallId")
            toolCall == DeferredToolCall(Str(<< call.execute.method >>),
                            call.input, Obj(<< Prop("toolCallId", id) >>))
            full     == DeferralSteps(toolCall, call.execute.inputConfig)
        IN  /\ result.status \in {"return", "throw"}
            /\ result.status = "return" =>
                  /\ steps = full
                  /\ result.value = PendingInput(id)
                  /\ \A i \in TriggerSteps : steps[i].data \in inflight
            /\ result.status = "throw" =>
                  /\ result.message \in TriggerFailures
                  /\ result.message = "publicApi failed" => steps = << >>
                  /\ result.message = "onBeforeCallKnock failed" =>
                        steps = UpTo(full, "onBeforeCallKnock")
                  /\ result.message = "workflows.trigger failed" =>
                        steps = UpTo(full, "trigger")
                  /\ result.message = "onAfterCallKnock failed" =>
                        steps = UpTo(full, "onAfterCallKnock")

C27_Witness ==
    /\ InvokeDone
    /\ call.execute.inputConfig.onBeforeCallKnock
    /\ call.execute.inputConfig.onAfterCallKnock
    /\ result.status = "return"
    /\ Len(steps) = 3
    /\ steps[1].step = "onBeforeCallKnock"
    /\ steps[2].step = "trigger"
    /\ steps[3].step = "onAfterCallKnock"

\* C28: every entry of the side table is a tool whose execute function is
\* not a deferring one, and a resume never triggers the approval workflow
\* nor has a pending-input status as the result it carries.
C28_SideTableHoldsOriginals ==
    /\ \A i \in 1..Len(wrappedToolsRequiringInput.entries) :
          LET execute == wrappedToolsRequiringInput.entries[i].val.execute
          IN  execute.t = "function" => execute.kind = "original"
    /\ ResumeDone =>
          /\ TriggerSteps = {}
          /\ result.status = "return" =>
                Get(Get(result.value, "result"), "status")
                   # Str(<< "pending-input" >>)
-----------------------------------------------------------------------------
(* The client cache: src/src/lib/knock-client.ts.  A call of publicApi runs *)
(* up to its await of apiKeys.exchange in one step and from the answer to   *)
(* its return in another; other calls run in between.                       *)

\* a ?? b
Nullish(a, b) == IF a.t \in {"undefined", "null"} THEN b ELSE a

\* obj[k] = v: the property is replaced where it is, or added at the end.
Assign(obj, k, v) ==
    IF HasOwn(obj, k) THEN SetProp(obj, k, v)
    ELSE Obj(Append(obj.props, Prop(k, v)))

\* The service tokens and the environments of the model.
ServiceTokens == { Str(<< "tok_a" >>), Str(<< "tok_b" >>) }

Environments == { Str(<< "development" >>), Str(<< "production" >>) }

\* The Config values handed to createKnockClient.
ClientConfigs ==
    {[serviceToken |-> tok, environment |-> env] :
        tok \in ServiceTokens \cup {Undefined},
        env \in {Undefined, Str(<< "production" >>)}}

\* createKnockClient(config), lines 17-60; envToken is
\* process.env.KNOCK_SERVICE_TOKEN.
createKnockClient(config, envToken) ==
    LET serviceToken == Nullish(config.serviceToken, envToken)
    IN  IF ~Truthy(serviceToken)
        THEN Throw("Error", "Service token is required. Please set the serviceToken property in the config or the KNOCK_SERVICE_TOKEN environment variable.")
        ELSE Return([t |-> "knockClient", serviceToken |-> serviceToken,
                     config |-> config])

\* The environment a call of publicApi is for, lines 33-34.
EnvironmentOf(knockClient, environmentSlug) ==
    Nullish(environmentSlug,
            Nullish(knockClient.config.environment, Str(<< "development" >>)))

\* serviceTokensToApiClients?.[serviceToken]?.[environment], line 37.
CachedClient(cache, serviceToken, environment) ==
    LET ofToken == Get(cache, Join(serviceToken.atoms))
    IN  IF ofToken.t \in {"undefined", "null"} THEN Undefined
        ELSE Get(ofToken, Join(environment.atoms))

\* The key the API gives for a service token and an environment.
ApiKeyOf(serviceToken, environment) ==
    << "pk", Join(serviceToken.atoms), Join(environment.atoms) >>

\* new Knock({apiKey}), lines 45-48: n tells one object from another.
Knock(apiKey, n) == [t |-> "knock", apiKey |-> apiKey, n |-> n]

\* The cache after lines 51-55.
StoreClient(cache, serviceToken, environment, knock) ==
    LET token   == Join(serviceToken.atoms)
        ofToken == IF Truthy(Get(cache, token)) THEN Get(cache, token)
                   ELSE Obj(<< >>)
    IN  Assign(cache, token, Assign(ofToken, Join(environment.atoms), knock))

\* What a call of publicApi returned: the pair it was for and the client.
Returned(serviceToken, environment, client) ==
    [serviceToken |-> serviceToken, environment |-> environment,
     client |-> client]

\* A tool executor or a toolkit calls knockClient.publicApi(environmentSlug):
\* lines 33-42, up to the return of line 38 or the await of line 42.
PublicApi ==
    \E config \in ClientConfigs, envToken \in {Undefined, Str(<< "tok_b" >>)},
       environmentSlug \in {Undefined} \cup Environments :
        LET made == createKnockClient(config, envToken)
        IN  /\ made.status = "return"
            /\ LET serviceToken == made.value.serviceToken
                   environment  == EnvironmentOf(made.value, environmentSlug)
                   cached       == CachedClient(serviceTokensToApiClients,
                                                serviceToken, environment)
               IN  IF Truthy(cached)
                   THEN /\ returned' = returned \cup
                              {Returned(serviceToken, environment, cached)}
                        /\ UNCHANGED << exchanges, exchanging >>
                   ELSE /\ Len(exchanges) < MaxExchanges
                        /\ exchanges' = Append(exchanges,
                              [serviceToken |-> serviceToken,
                               environment |-> environment,
                               outcome |-> "pending"])
                        /\ exchanging' = exchanging \cup {Len(exchanges) + 1}
                        /\ UNCHANGED returned
            /\ UNCHANGED << serviceTokensToApiClients, registry, pc, call,
                            result, steps, toolkitVars, toolkit >>

\* The exchange a call awaits answers with a key: lines 42-57.
ExchangeResolves ==
    \E n \in exchanging :
        LET serviceToken == exchanges[n].serviceToken
            environment  == exchanges[n].environment
            knock == Knock(ApiKeyOf(serviceToken, environment), n)
        IN  /\ serviceTokensToApiClients' =
                  StoreClient(serviceTokensToApiClients, serviceToken,
                              environment, knock)
            /\ exchanges' = [exchanges EXCEPT ![n].outcome = "resolved"]
            /\ exchanging' = exchanging \ {n}
            /\ returned' = returned \cup
                  {Returned(serviceToken, environment, knock)}
            /\ UNCHANGED << registry, pc, call, result, steps, toolkitVars,
                            toolkit >>

\* The exchange a call awaits fails: the call rejects at line 42.
ExchangeRejects ==
    \E n \in exchanging :
        /\ exchanges' = [exchanges EXCEPT ![n].outcome = "rejected"]
        /\ exchanging' = exchanging \ {n}
        /\ UNCHANGED << serviceTokensToApiClients, returned, registry, pc,
                        call, result, steps, toolkitVars, toolkit >>

ClientSpecInit ==
    /\ registry = [tools |-> tools, toolPermissions |-> toolPermissions]
    /\ pc = "idle"
    /\ call = NoCall
    /\ result = NoResult
    /\ hitl = "part_012"
    /\ wrappedToolsRequiringInput = Map(<< >>)
    /\ deferringTools = {}
    /\ inflight = {}
    /\ lastCompleted = NoResume
    /\ steps = << >>
    /\ toolkit = NoToolkit
    /\ ClientInit

ClientNext == PublicApi \/ ExchangeResolves \/ ExchangeRejects

ClientSpec == ClientSpecInit /\ [][ClientNext]_vars

\* The exchanges made for a pair that were not refused.
ExchangesFor(serviceToken, environment) ==
    {n \in 1..Len(exchanges) :
        /\ exchanges[n].serviceToken = serviceToken
        /\ exchanges[n].environment = environment
        /\ exchanges[n].outcome # "rejected"}

\* C22: under every interleaving of publicApi calls at their await, the
\* calls for one (service token, environment) pair return the same client
\* object, at most one exchange that is not refused is made for the pair,
\* and the client a call returns was created for the pair of the call.
C22_MemoizedGetOrCreate ==
    /\ \A r1, r2 \in returned :
          (r1.serviceToken = r2.serviceToken
              /\ r1.environment = r2.environment)
          => r1.client = r2.client
    /\ \A tok \in ServiceTokens, env \in Environments :
          Cardinality(ExchangesFor(tok, env)) <= 1
    /\ \A r \in returned :
          /\ r.client.t = "knock"
          /\ r.client.apiKey = ApiKeyOf(r.serviceToken, r.environment)
-----------------------------------------------------------------------------
(* Tool executors: src/unnamed/part_011 (KnockTool), src/src/lib/utils.ts   *)
(* (safeExecute), src/src/lib/tools/users.ts and src/unnamed/part_005 (the  *)
(* workflow step tools).  An executor makes its calls to the API in order;  *)
(* api says which call fails, what is thrown then, and what the calls that  *)
(* do not fail answer.                                                      *)

\* What a failing call of the API rejects with: an Error, or a value that
\* is not an Error.
Rejection(thrown, name) ==
    IF thrown = "Error" THEN Throw("Error", name \o " failed")
    ELSE Throw("NotAnError", name \o " failed")

\* safeExecute(fn), utils.ts lines 175-195, applied to what fn did.
safeExecute(outcome) ==
    IF outcome.status = "return" THEN outcome
    ELSE IF outcome.error \in {"Error", "TypeError"}
    THEN Return(Obj(<<
            Prop("message",
                 Str(<< "An error occurred with the call to the Knock API: ",
                        outcome.message >>)),
            Prop("error", [t |-> "error", kind |-> outcome.error,
                           message |-> outcome.message]) >>))
    ELSE Return(Obj(<<
            Prop("message",
                 Str(<< "An unknown error occurred with the call to the Knock API." >>)),
            Prop("error", [t |-> "thrown", message |-> outcome.message]) >>))

\* A maybeHideUserData that returns the user whatever the flag says.
maybeHideUserDataNever(user, hideUserData) == user

\* maybeHideUserData(user, hideUserData = false), users.ts lines 6-11.
maybeHideUserData(user, hideUserData) ==
    IF Truthy(IF hideUserData.t = "undefined" THEN Bool(FALSE)
              ELSE hideUserData)
    THEN Obj(<< Prop("id", Get(user, "id")) >>)
    ELSE user

\* The executor of get_user, users.ts lines 33-39.
getUser(config, params, api) ==
    LET asked == << [step |-> "publicApi", environment |-> params.environment] >>
        got   == asked \o
                 << [step |-> "users.get",
                     userId |-> Nullish(params.userId, config.userId)] >>
    IN  IF api.fail = "publicApi"
        THEN Outcome(Rejection(api.thrown, "publicApi"), asked)
        ELSE IF api.fail = "users.get"
        THEN Outcome(Rejection(api.thrown, "users.get"), got)
        ELSE Outcome(Return(maybeHideUserData(api.user, config.hideUserData)),
                     got)

\* The executor of upsert_user, users.ts lines 82-96.
createOrUpdateUser(config, params, api) ==
    LET asked == << [step |-> "publicApi", environment |-> params.environment] >>
        got   == asked \o
                 << [step |-> "users.identify",
                     userId |-> Nullish(params.userId, config.userId),
                     email |-> params.email] >>
    IN  IF api.fail = "publicApi"
        THEN Outcome(Rejection(api.thrown, "publicApi"), asked)
        ELSE IF api.fail = "users.identify"
        THEN Outcome(Rejection(api.thrown, "users.identify"), got)
        ELSE Outcome(Return(maybeHideUserData(api.user, config.hideUserData)),
                     got)

\* serializeWorkflowResponse(workflow), workflows.ts lines 20-28: the
\* fields kept of the ones the model has.
serializeWorkflowResponse(workflow) ==
    Obj(<< Prop("key", Get(workflow, "key")),
           Prop("name", Get(workflow, "name")) >>)

\* A step of a workflow: its ref, its type and what the tool set in it.
WorkflowStep(type, ref, madeBy) ==
    Obj(<< Prop("type", Str(<< type >>)), Prop("ref", ref),
           Prop("madeBy", Str(<< madeBy >>)) >>)

\* workflow.steps.findIndex((s) => s.ref === step.ref), part_005 line 30:
\* 0 stands for -1.
FindIndex(stepList, ref) ==
    IF \E i \in 1..Len(stepList) : Get(stepList[i], "ref") = ref
    THEN CHOOSE i \in 1..Len(stepList) :
            /\ Get(stepList[i], "ref") = ref
            /\ \A j \in 1..(i - 1) : Get(stepList[j], "ref") # ref
    ELSE 0

\* The steps updateWorkflowWithStep sends, part_005 lines 29-37.
StepsWithStep(stepList, step) ==
    LET existingStepIdx == FindIndex(stepList, Get(step, "ref"))
    IN  IF existingStepIdx # 0
        THEN [stepList EXCEPT ![existingStepIdx] = step]
        ELSE Append(stepList, step)

\* The request knockClient.workflows.upsert makes.
UpsertStep(workflowKey, environment, stepList) ==
    [step |-> "workflows.upsert", workflowKey |-> workflowKey,
     environment |-> environment, steps |-> stepList]

\* updateWorkflowWithStep(knockClient, workflow, step, environment),
\* part_005 lines 23-53; taken are the calls made before it.
updateWorkflowWithStep(workflow, step, environment, api, taken) ==
    LET sent == taken \o
                << UpsertStep(Get(workflow, "key"), environment,
                       StepsWithStep(Get(workflow, "steps").items, step)) >>
    IN  IF api.fail = "workflows.upsert"
        THEN Outcome(Rejection(api.thrown, "workflows.upsert"), sent)
        ELSE Outcome(Return(serializeWorkflowResponse(workflow)), sent)

\* generateStepRef(stepType), part_005 lines 18-21: api.random is the
\* string Math.random gives.
generateStepRef(stepType, api) == Str(<< stepType \o "_" \o api.random >>)

\* The step tools that look a channel up: method, channel type, the prefix
\* of a generated ref and the error when the account has no such channel
\* (part_005 lines 139-610).
ChannelStepTools ==
    { [method |-> "upsert_workflow_email_step", channel |-> "email",
       prefix |-> "email", none |-> "No email channels found"],
      [method |-> "upsert_workflow_sms_step", channel |-> "sms",
       prefix |-> "sms", none |-> "No SMS channels found"],
      [method |-> "upsert_workflow_push_step", channel |-> "push",
       prefix |-> "push", none |-> "No push channels found"],
      [method |-> "upsert_workflow_in_app_step", channel |-> "in_app_feed",
       prefix |-> "in_app_feed", none |-> "No in app channels found"],
      [method |-> "upsert_workflow_chat_step", channel |-> "chat",
       prefix |-> "chat", none |-> "No chat channels found"] }

\* The methods of workflowStepTools, part_005 lines 758-769.
StepToolMethods ==
    {tl.method : tl \in ChannelStepTools}
      \cup {"upsert_workflow_delay_step", "upsert_workflow_batch_step"}

\* params.environment ?? config.environment ?? "development".
StepEnvironment(config, params) ==
    Nullish(params.environment,
            Nullish(config.environment, Str(<< "development" >>)))

\* The executor of a channel step tool, e.g. part_005 lines 282-318.
createOrUpdateChannelStepInWorkflow(tl, config, params, api) ==
    LET environment == StepEnvironment(config, params)
        retrieved == << [step |-> "workflows.retrieve",
                         workflowKey |-> params.workflowKey,
                         environment |-> environment] >>
        listed    == retrieved \o << [step |-> "channels.list"] >>
        ofType    == SelectSeq(api.channels, LAMBDA ch : ch = tl.channel)
    IN  IF api.fail = "workflows.retrieve"
        THEN Outcome(Rejection(api.thrown, "workflows.retrieve"), retrieved)
        ELSE IF api.fail = "channels.list"
        THEN Outcome(Rejection(api.thrown, "channels.list"), listed)
        ELSE IF ~Truthy(params.channelKey) /\ Len(ofType) = 0
        THEN Outcome(Throw("Error", tl.none), listed)
        ELSE updateWorkflowWithStep(api.workflow,
                 WorkflowStep("channel",
                     Nullish(params.stepRef, generateStepRef(tl.prefix, api)),
                     tl.method),
                 environment, api, listed)

\* The executor of upsert_workflow_delay_step, part_005 lines 650-686: it
\* builds the steps itself.
createOrUpdateDelayStepInWorkflow(config, params, api) ==
    LET environment == StepEnvironment(config, params)
        retrieved == << [step |-> "workflows.retrieve",
                         workflowKey |-> params.workflowKey,
                         environment |-> environment] >>
        sent == retrieved \o
                << UpsertStep(params.workflowKey, environment,
                       Append(Get(api.workflow, "steps").items,
                           WorkflowStep("delay",
                               Nullish(params.stepRef,
                                       generateStepRef("delay", api)),
                               "upsert_workflow_delay_step"))) >>
    IN  IF api.fail = "workflows.retrieve"
        THEN Outcome(Rejection(api.thrown, "workflows.retrieve"), retrieved)
        ELSE IF api.fail = "workflows.upsert"
        THEN Outcome(Rejection(api.thrown, "workflows.upsert"), sent)
        ELSE Outcome(Return(serializeWorkflowResponse(api.workflow)), sent)

\* The executor of upsert_workflow_batch_step, part_005 lines 731-755.
createOrUpdateBatchStepInWorkflow(config, params, api) ==
    LET environment == StepEnvironment(config, params)
        retrieved == << [step |-> "workflows.retrieve",
                         workflowKey |-> params.workflowKey,
                         environment |-> environment] >>
    IN  IF api.fail = "workflows.retrieve"
        THEN Outcome(Rejection(api.thrown, "workflows.retrieve"), retrieved)
        ELSE updateWorkflowWithStep(api.workflow,
                 WorkflowStep("batch",
                     Nullish(params.stepRef, generateStepRef("batch", api)),
                     "upsert_workflow_batch_step"),
                 environment, api, retrieved)

\* The executor of a tool the model does not look into: one request to
\* the API, whose answer it returns.
otherTool(method, params, api) ==
    LET asked == << [step |-> "api", method |-> method, params |-> params] >>
    IN  IF api.fail = "api"
        THEN Outcome(Rejection(api.thrown, "api"), asked)
        ELSE Outcome(Return([t |-> "result", of |-> method, input |-> params]),
                     asked)

\* tool.execute(knockClient, config)(params) for the tool of a method.
execute(method, config, params, api) ==
    IF method = "get_user" THEN getUser(config, params, api)
    ELSE IF method = "upsert_user" THEN createOrUpdateUser(config, params, api)
    ELSE IF method = "upsert_workflow_delay_step"
    THEN createOrUpdateDelayStepInWorkflow(config, params, api)
    ELSE IF method = "upsert_workflow_batch_step"
    THEN createOrUpdateBatchStepInWorkflow(config, params, api)
    ELSE IF \E tl \in ChannelStepTools : tl.method = method
    THEN createOrUpdateChannelStepInWorkflow(
             CHOOSE tl \in ChannelStepTools : tl.method = method,
             config, params, api)
    ELSE otherTool(method, params, api)

\* tool.bindExecute(knockClient, config)(params), part_011 lines 89-90:
\* the executor itself, bound.
bindExecute(method, config, params, api) == execute(method, config, params, api)

-----------------------------------------------------------------------------
(* Bound executors as a state machine.                                     *)

\* The tools whose bound executor is called: the user tools, the workflow
\* step tools and one tool the model does not look into.
BoundTools == {"get_user", "upsert_user", "list_workflows"} \cup StepToolMethods

\* The Config values an executor is bound with.
ExecConfig(userId, hideUserData) ==
    [serviceToken |-> Str(<< "tok_a" >>), environment |-> Undefined,
     userId |-> userId, hideUserData |-> hideUserData,
     permissions |-> Obj(<< >>)]

ConfigsOf(method) ==
    IF method \in {"get_user", "upsert_user"}
    THEN {ExecConfig(userId, hideUserData) :
             userId \in {Undefined, Str(<< "u2" >>)},
             hideUserData \in {Undefined, Bool(TRUE), Bool(FALSE)}}
    ELSE {ExecConfig(Undefined, Undefined)}

\* The refs of the steps a workflow of the account has; the last one is a
\* ref generateStepRef made earlier.
ExistingSteps ==
    { WorkflowStep("channel", Str(<< "step_1" >>), "api"),
      WorkflowStep("delay", Str(<< "step_2" >>), "api"),
      WorkflowStep("batch", Str(<< "batch_AAAAA" >>), "api") }

\* The arguments the model gives a tool.
ParamsOf(method) ==
    IF method \in {"get_user", "upsert_user"}
    THEN {[environment |-> Undefined, userId |-> userId, email |-> Undefined] :
             userId \in {Undefined, Str(<< "u1" >>)}}
    ELSE IF method \in StepToolMethods
    THEN {[environment |-> Undefined, workflowKey |-> Str(<< "wf" >>),
           stepRef |-> stepRef, channelKey |-> channelKey] :
             stepRef \in {Undefined, Str(<< "step_1" >>), Str(<< "step_2" >>),
                          Str(<< "new_step" >>)},
             channelKey \in {Undefined, Str(<< "ch" >>)}}
    ELSE {[environment |-> Undefined]}

\* The users the API answers with: two ids, two profiles each.
ApiUsers ==
    {Obj(<< Prop("id", Str(<< id >>)), Prop("email", Str(<< email >>)) >>) :
        id \in {"u1", "u2"}, email \in {"a@example.com", "b@example.com"}}

\* The workflows the API answers with: their steps have distinct refs.
ApiWorkflows ==
    {Obj(<< Prop("key", Str(<< "wf" >>)), Prop("name", Str(<< "Wf" >>)),
            Prop("steps", Arr(stepList)) >>) :
        stepList \in DistinctSeqs(ExistingSteps, MaxSteps)}

\* The channel types of the account, as channels.list gives them.
ApiChannels ==
    { << >>, << "email", "sms", "push", "in_app_feed", "chat" >> }

\* The calls to the API the executor of a tool makes.
ApiCallsOf(method) ==
    IF method = "get_user" THEN {"publicApi", "users.get"}
    ELSE IF method = "upsert_user" THEN {"publicApi", "users.identify"}
    ELSE IF method \in {"upsert_workflow_delay_step", "upsert_workflow_batch_step"}
    THEN {"workflows.retrieve", "workflows.upsert"}
    ELSE IF method \in StepToolMethods
    THEN {"workflows.retrieve", "channels.list", "workflows.upsert"}
    ELSE {"api"}

\* What the API does during a call of a tool.
Api(fail, thrown, user, workflow, channelList, random) ==
    [fail |-> fail, thrown |-> thrown, user |-> user, workflow |-> workflow,
     channels |-> channelList, random |-> random]

ApiOf(method) ==
    LET someUser     == CHOOSE u \in ApiUsers : TRUE
        someWorkflow == CHOOSE w \in ApiWorkflows : TRUE
        failing == {Api(fail, thrown, someUser, someWorkflow,
                        << "email", "sms", "push", "in_app_feed", "chat" >>,
                        "BBBBB") :
                       fail \in ApiCallsOf(method),
                       thrown \in {"Error", "value"}}
        answering ==
            IF method \in {"get_user", "upsert_user"}
            THEN {Api("none", "Error", user, someWorkflow, << >>, "BBBBB") :
                     user \in ApiUsers}
            ELSE IF method \in StepToolMethods
            THEN {Api("none", "Error", someUser, workflow, channelList, random) :
                     workflow \in ApiWorkflows,
                     channelList \in ApiChannels,
                     random \in {"AAAAA", "BBBBB"}}
            ELSE {Api("none", "Error", someUser, someWorkflow, << >>, "BBBBB")}
    IN  failing \cup answering

\* An adapter (src/src/modelcontextprotocol/adapter.ts line 19,
\* src/unnamed/part_016 line 20) binds a tool and calls it.
BindExecute ==
    /\ pc = "idle"
    /\ \E method \in BoundTools :
         \E config \in ConfigsOf(method), params \in ParamsOf(method),
            api \in ApiOf(method) :
            LET ran == bindExecute(method, config, params, api)
            IN  /\ call' = [op |-> "bindExecute", method |-> method,
                            config |-> config, params |-> params, api |-> api]
                /\ result' = ran.res
                /\ steps' = ran.steps
    /\ pc' = "done"
    /\ UNCHANGED << registry, toolkitVars, toolkit, clientVars >>

ExecuteInit ==
    /\ registry = [tools |-> tools, toolPermissions |-> toolPermissions]
    /\ pc = "idle"
    /\ call = NoCall
    /\ result = NoResult
    /\ hitl = "part_012"
    /\ wrappedToolsRequiringInput = Map(<< >>)
    /\ deferringTools = {}
    /\ inflight = {}
    /\ lastCompleted = NoResume
    /\ steps = << >>
    /\ toolkit = NoToolkit
    /\ ClientInit

ExecuteNext == BindExecute \/ Finish

ExecuteSpec == ExecuteInit /\ [][ExecuteNext]_vars

-----------------------------------------------------------------------------
(* Properties of the bound executors, under ExecuteSpec.                    *)

BoundDone == pc = "done" /\ call.op = "bindExecute"

\* What the executor of the tool did with the inputs of the call.
ExecutorOutcome ==
    execute(call.method, call.config, call.params, call.api).res

\* C21: a bound call never rejects: when the executor returns a value the
\* bound call returns that value, and when the executor throws the bound
\* call returns the object {message, error} of safeExecute, whose message
\* holds the message of the error when an Error was thrown and is the
\* generic message otherwise.
C21_ErrorsRecoveredAtBoundary ==
    BoundDone =>
        /\ result.status = "return"
        /\ result = safeExecute(ExecutorOutcome)

UserToolDone ==
    /\ BoundDone
    /\ call.method \in {"get_user", "upsert_user"}
    /\ result.status = "return"

\* C23: when config.hideUserData is true, get_user and upsert_user return
\* an object that holds the id of the user and nothing else, and the same
\* call with any other profile of that id answered by the API returns the
\* same result; when hideUserData is false or not set they return the user
\* as the API answered it.
C23_HiddenUserData ==
    UserToolDone =>
        IF call.config.hideUserData = Bool(TRUE)
        THEN /\ result.value = Obj(<< Prop("id", Get(call.api.user, "id")) >>)
             /\ \A other \in ApiUsers :
                   Get(other, "id") = Get(call.api.user, "id")
                   => bindExecute(call.method, call.config, call.params,
                          [call.api EXCEPT !.user = other]).res = result
        ELSE result.value = call.api.user

C23_Witness ==
    /\ UserToolDone
    /\ call.method = "upsert_user"
    /\ call.config.hideUserData = Bool(TRUE)
    /\ HasOwn(call.api.user, "email")
    /\ Keys(result.value) = << "id" >>
    /\ Get(result.value, "id") = Str(<< "u2" >>)

StepToolDone == BoundDone /\ call.method \in StepToolMethods

UpsertSteps == {i \in 1..Len(steps) : steps[i].step = "workflows.upsert"}

\* C26: every steps list a workflow step tool sends to the API is, when
\* stepRef is given and the workflow has a step with that ref, the list of
\* the workflow with the step at that index replaced by the step of the
\* tool and nothing else changed; otherwise it is the list of the workflow
\* with the step of the tool appended.
C26_StepReplacedOrAppended ==
    StepToolDone =>
        \A i \in UpsertSteps :
            LET original == Get(call.api.workflow, "steps").items
                sent     == steps[i].steps
                stepRef  == call.params.stepRef
                idx      == FindIndex(original, stepRef)
                MadeByTool(step) ==
                    Get(step, "madeBy") = Str(<< call.method >>)
            IN  IF stepRef # Undefined /\ idx # 0
                THEN /\ Len(sent) = Len(original)
                     /\ \A j \in 1..Len(original) :
                           j # idx => sent[j] = original[j]
                     /\ Get(sent[idx], "ref") = stepRef
                     /\ MadeByTool(sent[idx])
                ELSE /\ Len(sent) = Len(original) + 1
                     /\ SubSeq(sent, 1, Len(original)) = original
                     /\ MadeByTool(sent[Len(sent)])
-----------------------------------------------------------------------------
(* The toolkits: src/src/ai-sdk/index.ts, src/src/openai/index.ts and the   *)
(* converters of src/unnamed/part_016 and src/src/openai/tool-converter.ts. *)

\* The request createWorkflowTools makes (part_009 line 297).
ListStep == [step |-> "workflows.list"]

\* A resolution that asks for the listing once for every key of the list.
listingCallsPerKey(reg, permissions) ==
    IF /\ ReduceCategories(reg, permissions, Keys(permissions), << >>).status
            = "return"
       /\ HasTriggerList(permissions)
    THEN [i \in 1..Len(Get(Get(permissions, "workflows"), "trigger").items)
            |-> ListStep]
    ELSE << >>

\* The calls of workflows.list getToolsByPermissionsInCategories makes,
\* utils.ts lines 106-133: the condition of lines 124-128 is reached when
\* the reduce of lines 106-120 has not thrown.
listingCalls(reg, permissions) ==
    IF /\ ReduceCategories(reg, permissions, Keys(permissions), << >>).status
            = "return"
       /\ HasTriggerList(permissions)
    THEN << ListStep >>
    ELSE << >>

\* Object.values(allowedToolsByCategory).flat(), ai-sdk/index.ts line 132.
AllowedTools(allowedToolsByCategory) ==
    Flatten([i \in 1..Len(Values(allowedToolsByCategory)) |->
                Values(allowedToolsByCategory)[i].items])

\* The closure createKnockToolkit returns: what its methods close over.
Toolkit(adapter, config, allowedToolsByCategory) ==
    [t |-> "toolkit", adapter |-> adapter, config |-> config,
     allowedToolsByCategory |-> allowedToolsByCategory,
     allTools |-> AllowedTools(allowedToolsByCategory),
     toolsByMethod |-> getToolMap(AllowedTools(allowedToolsByCategory))]

\* createKnockToolkit(config) of either adapter, ai-sdk/index.ts lines
\* 124-135 and openai/index.ts lines 43-54.  listing is what the workflow
\* listing yields if it is asked for.
createKnockToolkit(reg, adapter, config, envToken, listing) ==
    LET knockClient == createKnockClient(config, envToken)
    IN  IF knockClient.status = "throw" THEN Outcome(knockClient, << >>)
        ELSE
        LET allowedToolsByCategory ==
                getToolsByPermissionsInCategories(reg, config.permissions,
                                                  listing)
            listed == listingCalls(reg, config.permissions)
        IN  IF allowedToolsByCategory.status = "throw"
            THEN Outcome(allowedToolsByCategory, listed)
            ELSE Outcome(Return(Toolkit(adapter, config,
                                        allowedToolsByCategory.value)),
                         listed)

\* knockTool.bindExecute(knockClient, config) as a value.
Bound(method, config) ==
    [t |-> "function", kind |-> "bound", method |-> method, config |-> config]

\* knockToolToAiTool(knockClient, config, knockTool), part_016 lines 12-22.
knockToolToAiTool(config, knockTool) ==
    Tool(<< knockTool.name >>, Bound(knockTool.method, config))

RECURSIVE ToolSetReduce(_, _, _)
\* The reduce of part_016 lines 32-38 over the tools that are left.
ToolSetReduce(config, toolList, acc) ==
    IF toolList = << >> THEN acc
    ELSE ToolSetReduce(config, Tail(toolList),
             Assign(acc, Head(toolList).method,
                    knockToolToAiTool(config, Head(toolList))))

\* knockToolsToToolSet(knockClient, config, knockTools), part_016 lines
\* 27-39; knockTools is an array or undefined.
knockToolsToToolSet(config, knockTools) ==
    IF knockTools.t # "array"
    THEN Throw("TypeError",
               "Cannot read properties of undefined (reading 'reduce')")
    ELSE Return(ToolSetReduce(config, knockTools.items, Obj(<< >>)))

\* knockToolToChatCompletionTool(knockTool), openai/tool-converter.ts lines
\* 12-24.
knockToolToChatCompletionTool(knockTool) ==
    Obj(<< Prop("type", Str(<< "function" >>)),
           Prop("function",
                Obj(<< Prop("name", Str(<< knockTool.method >>)),
                       Prop("description", Str(<< knockTool.name >>)) >>)) >>)

\* knockTools.map((t) => knockToolToChatCompletionTool(t)), openai/index.ts
\* lines 61 and 71-73.
ChatCompletionTools(knockTools) ==
    IF knockTools.t # "array"
    THEN Throw("TypeError",
               "Cannot read properties of undefined (reading 'map')")
    ELSE Return(Arr([i \in 1..Len(knockTools.items) |->
                        knockToolToChatCompletionTool(knockTools.items[i])]))

\* toolkit.getAllTools(), ai-sdk/index.ts lines 142-144 and openai/index.ts
\* lines 60-62.
getAllTools(kit) ==
    IF kit.adapter = "ai-sdk"
    THEN knockToolsToToolSet(kit.config, Arr(kit.allTools))
    ELSE ChatCompletionTools(Arr(kit.allTools))

\* toolkit.getTools(category), ai-sdk/index.ts lines 153-159 and
\* openai/index.ts lines 70-74.
getTools(kit, category) ==
    IF kit.adapter = "ai-sdk"
    THEN knockToolsToToolSet(kit.config,
                             Get(kit.allowedToolsByCategory, category))
    ELSE ChatCompletionTools(Get(kit.allowedToolsByCategory, category))

\* toolkit.getToolMap(), ai-sdk/index.ts lines 167-175 and openai/index.ts
\* lines 81-89.
getToolMapOf(kit) ==
    Return(Obj([i \in 1..Len(kit.toolsByMethod.props) |->
        Prop(kit.toolsByMethod.props[i].key,
             IF kit.adapter = "ai-sdk"
             THEN knockToolToAiTool(kit.config, kit.toolsByMethod.props[i].val)
             ELSE knockToolToChatCompletionTool(kit.toolsByMethod.props[i].val))]))

\* What an executor reads off toolCall.function.arguments, which the
\* OpenAI API gives as a JSON string: a string has none of the properties
\* an executor reads.
ArgumentsAsParams(arguments) ==
    [environment |-> Undefined, userId |-> Undefined, email |-> Undefined,
     workflowKey |-> Undefined, stepRef |-> Undefined,
     channelKey |-> Undefined, raw |-> arguments]

\* The call of a bound executor, as a step.
ExecuteStep(method, config, args) ==
    [step |-> "execute", executor |-> method, config |-> config,
     args |-> args]

\* toolkit.handleToolCall(toolCall), openai/index.ts lines 97-114.
handleToolCall(kit, toolCall, api) ==
    LET name == Join(toolCall.function.name.atoms)
        tool == Get(kit.toolsByMethod, name)
    IN  IF ~Truthy(tool)
        THEN Outcome(Throw("Error", "Tool " \o name \o " not found"), << >>)
        ELSE IF tool.t # "tool"
        THEN Outcome(Throw("TypeError", "tool.bindExecute is not a function"),
                     << >>)
        ELSE
        LET ran == bindExecute(tool.method, kit.config,
                       ArgumentsAsParams(toolCall.function.arguments), api)
            taken == << ExecuteStep(tool.method, kit.config,
                            toolCall.function.arguments) >> \o ran.steps
        IN  IF ran.res.status = "throw" THEN Outcome(ran.res, taken)
            ELSE Outcome(Return(Obj(<<
                     Prop("role", Str(<< "tool" >>)),
                     Prop("tool_call_id", toolCall.id),
                     Prop("content", ran.res.value) >>)), taken)

\* tool.execute(params) for a tool of a ToolSet: the bound executor.
invokeTool(aiTool, params, api) ==
    LET ran == bindExecute(aiTool.execute.method, aiTool.execute.config,
                           params, api)
    IN  Outcome(ran.res,
                << ExecuteStep(aiTool.execute.method, aiTool.execute.config,
                               params) >> \o ran.steps)

-----------------------------------------------------------------------------
(* The toolkits as a state machine.  The model follows one toolkit.        *)

\* The values of config.permissions of the toolkits: one category, two
\* categories one of which lists workflow keys, none, and a category no
\* registry has.
ToolkitPermissions ==
    { Obj(<< Prop("users", Obj(<< Prop("read", Bool(TRUE)) >>)) >>),
      Obj(<< >>),
      Obj(<< Prop("nope", Obj(<< Prop("read", Bool(TRUE)) >>)) >>) }
      \cup
    { Obj(<< Prop("users", Obj(<< Prop("read", Bool(TRUE)) >>)),
             Prop("workflows", Obj(<< Prop("trigger", Arr(keys)) >>)) >>) :
         keys \in KeyLists }

ToolkitConfigs ==
    {[serviceToken |-> serviceToken, environment |-> Undefined,
      userId |-> Str(<< "u2" >>), hideUserData |-> Undefined,
      permissions |-> permissions] :
        serviceToken \in {Undefined, Str(<< "tok_a" >>)},
        permissions \in ToolkitPermissions}

\* The categories getTools is asked for.
AskedCategories == {"users", "workflows", "messages"}

\* The function names of the tool calls a model makes: methods of the
\* registry, a method of a synthesized tool, a name that is no method, and
\* a name every object inherits.
ToolCallNames ==
    {"get_user", "upsert_user", "trigger_k1_workflow", "nope", "constructor"}

ToolCalls ==
    {[id |-> Str(<< id >>),
      function |-> [name |-> Str(<< name >>), arguments |-> Str(<< "{}" >>)]] :
        id \in {"call_1", "call_2"}, name \in ToolCallNames}

\* The application creates its toolkit.
CreateKnockToolkit ==
    /\ pc = "idle"
    /\ toolkit = NoToolkit
    /\ \E adapter \in {"ai-sdk", "openai"}, config \in ToolkitConfigs :
         \E listing \in IF HasTriggerList(config.permissions)
                         THEN Listings ELSE {NoListing} :
            LET made == createKnockToolkit(registry, adapter, config,
                                           Undefined, listing)
            IN  /\ call' = [op |-> "createKnockToolkit", adapter |-> adapter,
                            config |-> config, listing |-> listing]
                /\ result' = made.res
                /\ steps' = made.steps
                /\ toolkit' = IF made.res.status = "return"
                              THEN made.res.value ELSE toolkit
    /\ pc' = "done"
    /\ UNCHANGED << registry, toolkitVars, clientVars >>

GetAllTools ==
    /\ pc = "idle"
    /\ toolkit # NoToolkit
    /\ call' = [op |-> "getAllTools"]
    /\ result' = getAllTools(toolkit)
    /\ steps' = << >>
    /\ pc' = "done"
    /\ UNCHANGED << registry, toolkitVars, toolkit, clientVars >>

GetTools ==
    /\ pc = "idle"
    /\ toolkit # NoToolkit
    /\ \E category \in AskedCategories :
          /\ call' = [op |-> "getTools", category |-> category]
          /\ result' = getTools(toolkit, category)
    /\ steps' = << >>
    /\ pc' = "done"
    /\ UNCHANGED << registry, toolkitVars, toolkit, clientVars >>

GetToolMap ==
    /\ pc = "idle"
    /\ toolkit # NoToolkit
    /\ call' = [op |-> "getToolMap"]
    /\ result' = getToolMapOf(toolkit)
    /\ steps' = << >>
    /\ pc' = "done"
    /\ UNCHANGED << registry, toolkitVars, toolkit, clientVars >>

\* The application hands a tool call of the model to the OpenAI toolkit.
HandleToolCall ==
    /\ pc = "idle"
    /\ toolkit # NoToolkit
    /\ toolkit.adapter = "openai"
    /\ \E toolCall \in ToolCalls :
         \E api \in ApiOf(Join(toolCall.function.name.atoms)) :
            LET handled == handleToolCall(toolkit, toolCall, api)
            IN  /\ call' = [op |-> "handleToolCall", toolCall |-> toolCall,
                            api |-> api]
                /\ result' = handled.res
                /\ steps' = handled.steps
    /\ pc' = "done"
    /\ UNCHANGED << registry, toolkitVars, toolkit, clientVars >>

\* The AI SDK runs a tool of the set getAllTools gave it.
InvokeTool ==
    /\ pc = "idle"
    /\ toolkit # NoToolkit
    /\ toolkit.adapter = "ai-sdk"
    /\ LET toolSet == getAllTools(toolkit).value
       IN  \E i \in 1..Len(toolSet.props) :
             LET method == toolSet.props[i].key
             IN  \E params \in ParamsOf(method), api \in ApiOf(method) :
                    LET ran == invokeTool(toolSet.props[i].val, params, api)
                    IN  /\ call' = [op |-> "invokeTool", method |-> method,
                                    params |-> params, api |-> api]
                        /\ result' = ran.res
                        /\ steps' = ran.steps
    /\ pc' = "done"
    /\ UNCHANGED << registry, toolkitVars, toolkit, clientVars >>

ToolkitInit ==
    /\ registry = [tools |-> tools, toolPermissions |-> toolPermissions]
    /\ pc = "idle"
    /\ call = NoCall
    /\ result = NoResult
    /\ hitl = "part_012"
    /\ wrappedToolsRequiringInput = Map(<< >>)
    /\ deferringTools = {}
    /\ inflight = {}
    /\ lastCompleted = NoResume
    /\ steps = << >>
    /\ toolkit = NoToolkit
    /\ ClientInit

ToolkitNext ==
    \/ CreateKnockToolkit
    \/ GetAllTools
    \/ GetTools
    \/ GetToolMap
    \/ HandleToolCall
    \/ InvokeTool
    \/ Finish

ToolkitSpec == ToolkitInit /\ [][ToolkitNext]_vars

-----------------------------------------------------------------------------
(* Properties of the toolkits, under ToolkitSpec.                           *)

CreateDone == pc = "done" /\ call.op = "createKnockToolkit"

\* A method of the toolkit, or a tool it handed out, has run.
ToolkitUsed ==
    /\ pc = "done"
    /\ call.op \in {"getAllTools", "getTools", "getToolMap",
                    "handleToolCall", "invokeTool"}

\* The places in the log of the call where the workflows were listed.
ListSteps == {i \in 1..Len(steps) : steps[i] = ListStep}

\* The methods of a list of descriptors, and the names under which a
\* result of getAllTools, getTools or getToolMap holds its tools.
MethodsOf(toolList) == {toolList[i].method : i \in 1..Len(toolList)}

NamesIn(collection) ==
    IF collection.t = "array"
    THEN {Join(Get(Get(collection.items[i], "function"), "name").atoms) :
             i \in 1..Len(collection.items)}
    ELSE {Keys(collection)[i] : i \in 1..Len(Keys(collection))}

\* Only createKnockToolkit writes what the toolkit closes over.
ToolkitWrittenOnce ==
    toolkit' # toolkit =>
        /\ toolkit = NoToolkit
        /\ call'.op = "createKnockToolkit"
        /\ result'.status = "return"
        /\ toolkit' = result'.value

\* The listing is made by createKnockToolkit and by nothing after it.
ListedAtCreationOnly ==
    /\ CreateDone =>
          /\ Cardinality(ListSteps) <= 1
          /\ result.status = "return" =>
                /\ Cardinality(ListSteps) =
                      IF HasTriggerList(call.config.permissions) THEN 1 ELSE 0
                /\ result.value.allowedToolsByCategory =
                      getToolsByPermissionsInCategories(registry,
                          call.config.permissions, call.listing).value
    /\ ToolkitUsed =>
          /\ ListSteps = {}
          /\ call.op \in {"getAllTools", "getToolMap"} =>
                /\ result.status = "return"
                /\ NamesIn(result.value) = MethodsOf(toolkit.allTools)
          /\ (call.op = "getTools" /\ result.status = "return") =>
                NamesIn(result.value) =
                    MethodsOf(Get(toolkit.allowedToolsByCategory,
                                  call.category).items)

HandleCallDone == pc = "done" /\ call.op = "handleToolCall"

\* C29: handleToolCall of a tool call whose function name is the method of
\* no permitted descriptor throws Error "Tool <name> not found" and runs no
\* executor; for the method of a permitted descriptor it runs the executor
\* of that method once, bound to the config of the toolkit, and returns a
\* message of role "tool" whose tool_call_id is the id of the call.
C29_OnlyPermittedToolsRun ==
    HandleCallDone =>
        LET name == Join(call.toolCall.function.name.atoms)
        IN  IF name \notin MethodsOf(toolkit.allTools)
            THEN /\ result = Throw("Error", "Tool " \o name \o " not found")
                 /\ ExecuteSteps = {}
            ELSE /\ Cardinality(ExecuteSteps) = 1
                 /\ \A i \in ExecuteSteps :
                       /\ steps[i].executor = name
                       /\ steps[i].config = toolkit.config
                 /\ result.status = "return"
                 /\ Get(result.value, "role") = Str(<< "tool" >>)
                 /\ Get(result.value, "tool_call_id") = call.toolCall.id

GetToolsDone == pc = "done" /\ call.op = "getTools"

\* C30: getTools of a category that config.permissions does not name
\* returns an empty collection (an empty ToolSet of the AI SDK toolkit, an
\* empty array of the OpenAI toolkit), and getAllTools returns.
C30_AbsentCategoryIsEmpty ==
    /\ (GetToolsDone /\ ~HasOwn(toolkit.config.permissions, call.category))
       => result = Return(IF toolkit.adapter = "ai-sdk"
                          THEN Obj(<< >>) ELSE Arr(<< >>))
    /\ (pc = "done" /\ call.op = "getAllTools") => result.status = "return"
====
